---- MODULE Spec2Model ----
(***************************************************************************)
(* Model of the Flask/SQLite inventory backend (src/backend/app.py).       *)
(*                                                                         *)
(* The committed database is the four tables categories, products, sales  *)
(* and stock_logs.  Every request handler opens its own connection         *)
(* (get_db_connection).  Python's sqlite3 module runs SELECT statements    *)
(* outside any transaction and opens an implicit transaction at the first  *)
(* INSERT/UPDATE, which takes SQLite's single write lock; the statements   *)
(* of that transaction work on a private copy (tx) that becomes the        *)
(* committed database at conn.commit() and is dropped at conn.rollback()   *)
(* or when the connection is closed without commit.                        *)
(*                                                                         *)
(* A handler is therefore a sequence of steps: the request's validation    *)
(* together with its SELECTs, then each write statement, then the commit.  *)
(* Steps of different handlers interleave (the development server is       *)
(* threaded).                                                              *)
(***************************************************************************)
EXTENDS Integers, Sequences, FiniteSets, TLC

\* ------------------------------------------------------------- bounds
NumHandlers == 2
MaxProducts == 2
MaxLog == 3
MaxQty == 2
SeedProducts == 2    \* products a seeding run inserts (the scripts: 50, 121)
SeedSales == 1       \* most sales a seeding run inserts (the scripts: 35..105)
SeedLogSample == 1   \* products seed() writes a log row for (the script: 20)
TicksPerDay == 2     \* the clock counts half days
DashDays == 9        \* days the sales of a dashboard state spread over
DashSales == 2       \* most sales in a dashboard state

\* --------------------------------------------------- program constants
NumCategories == 8
DefaultMinStockLevel == 5
NumRealCategories == 5   \* categories of seed_real_products that init_db lacks
TrendDays == 7           \* days of the dashboard's sales trend
SalesLimit == 100        \* LIMIT of the sales history query

VARIABLES categories, products, sales, stock_logs, tx, lock, pc, req, res,
          clock,  \* now: the instant (ticks, UTC); tz: the server's UTC offset
          schema  \* "none": no tables yet; "script": the tables of
                  \* init_db_if_needed (products without purchasing_price);
                  \* "app": the tables of init_db

vars == <<categories, products, sales, stock_logs, tx, lock, pc, req, res, clock,
          schema>>
tables == <<categories, products, sales, stock_logs>>

Handlers == 1..NumHandlers

\* ------------------------------------------------------ request inputs
SkuValues == {"A", "B"}

\* a well-formed body of POST /api/products
BaseCreate ==
  [name |-> "Widget", sku |-> "A", category_id |-> 1, price |-> 10,
   purchasing_price |-> 6, stock_quantity |-> 1,
   min_stock_level |-> DefaultMinStockLevel]

\* every request, well-formed or not: the values that take each branch of
\* the handlers' checks
AllInputs ==
  [product_ids |-> 0..(MaxProducts + 1),
   quantities |-> (-1)..MaxQty,
   text_quantities |-> {"", "abc"},
   reasons |-> {<<>>, <<"Supplier delivery">>},
   creates |->
     {[BaseCreate EXCEPT !.sku = s, !.stock_quantity = k] :
        s \in SkuValues \cup {""}, k \in (-1)..MaxQty}
       \cup {[BaseCreate EXCEPT !.sku = s] : s \in {" ", " A"}}
       \cup {[BaseCreate EXCEPT !.name = n] : n \in {"", " ", "Widget"}}
       \cup {[BaseCreate EXCEPT !.category_id = c] : c \in {1, NumCategories + 1}}
       \cup {[BaseCreate EXCEPT !.price = x] : x \in {0, 10}}
       \cup {[BaseCreate EXCEPT !.purchasing_price = x] : x \in {-1, 6}}
       \cup {[BaseCreate EXCEPT !.min_stock_level = m] : m \in {-1, DefaultMinStockLevel}},
   updates |->
     {[other |-> 0]}
       \cup {[name |-> n] : n \in {"", " ", "Widget"}}
       \cup {[sku |-> s] : s \in SkuValues \cup {"", " ", " A"}}
       \cup {[category_id |-> c] : c \in {1, NumCategories + 1}}
       \cup {[price |-> x] : x \in {0, 10}}
       \cup {[purchasing_price |-> x] : x \in {-1, 6}}
       \cup {[stock_quantity |-> k] : k \in (-1)..MaxQty}
       \cup {[min_stock_level |-> m] : m \in {-1, DefaultMinStockLevel}}
       \cup {[sku |-> s, stock_quantity |-> k] : s \in SkuValues, k \in (-1)..MaxQty}
       \cup {[stock_quantity |-> k, min_stock_level |-> -1] : k \in (-1)..MaxQty}]

\* the requests that read or write the stock or the sku
RaceInputs ==
  [product_ids |-> 1..MaxProducts,
   quantities |-> (-1)..MaxQty,
   text_quantities |-> {"abc"},
   reasons |-> {<<>>},
   creates |->
     {[BaseCreate EXCEPT !.sku = s, !.stock_quantity = k] :
        s \in SkuValues, k \in (-1)..MaxQty},
   updates |->
     {[stock_quantity |-> k] : k \in (-1)..MaxQty}
       \cup {[sku |-> s] : s \in SkuValues}
       \cup {[sku |-> s, stock_quantity |-> k] : s \in SkuValues, k \in 0..MaxQty}]

\* ------------------------------------------------------------ helpers
NoTx == [products |-> <<>>, sales |-> <<>>, stock_logs |-> <<>>]
NoReq == [op |-> "none"]
NoRes == [status |-> 0]

DB == [products |-> products, sales |-> sales, stock_logs |-> stock_logs]

format_error(message, status_code) == [status |-> status_code, error |-> message]

\* A stored timestamp is text: a wall-clock reading (date and time of day)
\* and the separator between the two.  SQLite's CURRENT_TIMESTAMP writes
\* the UTC reading with a blank, datetime.now().isoformat() writes the
\* server's local reading with a 'T'.
CURRENT_TIMESTAMP(t) == [ticks |-> t, sep |-> " "]
isoformat(t, tz) == [ticks |-> t + tz, sep |-> "T"]

\* a catalogue of one product, sold, restocked, repriced and recounted by
\* concurrent requests
LiveInputs ==
  [product_ids |-> {1},
   quantities |-> {1},
   text_quantities |-> {"abc"},
   reasons |-> {<<>>},
   creates |-> {BaseCreate},
   updates |-> {[price |-> 20], [sku |-> "A", stock_quantity |-> 2]}]

\* the rows a request may still append stay within the model's bounds
InFlight == Cardinality({h \in Handlers : pc[h] # "idle"})
RoomInLog == Len(stock_logs) + InFlight < MaxLog

\* ---------------------------------------------------------------- Init
init_db ==
  /\ categories = 1..NumCategories
  /\ products = <<>>
  /\ sales = <<>>
  /\ stock_logs = <<>>

Init ==
  /\ init_db
  /\ tx = NoTx
  /\ lock = 0
  /\ pc = [h \in Handlers |-> "idle"]
  /\ req = [h \in Handlers |-> NoReq]
  /\ res = NoRes
  /\ clock = [now |-> 0, tz |-> 0]
  /\ schema = "app"

\* -------------------------------------------------- steps common to all
\* return a response (res is the response the step just taken has sent, if
\* any): the handler is free again
Return(h, response) ==
  /\ pc' = [pc EXCEPT ![h] = "idle"]
  /\ req' = [req EXCEPT ![h] = NoReq]
  /\ res' = response
  /\ UNCHANGED <<clock, schema>>

\* go on to the next statement of the handler
Goto(h, label, locals) ==
  /\ pc' = [pc EXCEPT ![h] = label]
  /\ req' = [req EXCEPT ![h] = locals]
  /\ res' = NoRes
  /\ UNCHANGED <<clock, schema>>

\* the first INSERT/UPDATE of a connection opens the implicit transaction
BeginWrite(h, t) ==
  /\ lock = 0
  /\ lock' = h
  /\ tx' = t

\* conn.commit(): the transaction's copy becomes the committed database
Commit(h) ==
  /\ lock = h
  /\ products' = tx.products
  /\ sales' = tx.sales
  /\ stock_logs' = tx.stock_logs
  /\ UNCHANGED categories
  /\ tx' = NoTx
  /\ lock' = 0

\* mutant: the writes made before the failure are kept
Rollback_KeepsWrites(h) ==
  /\ products' = IF lock = h THEN tx.products ELSE products
  /\ sales' = IF lock = h THEN tx.sales ELSE sales
  /\ stock_logs' = IF lock = h THEN tx.stock_logs ELSE stock_logs
  /\ UNCHANGED categories
  /\ tx' = IF lock = h THEN NoTx ELSE tx
  /\ lock' = IF lock = h THEN 0 ELSE lock

\* conn.rollback(), or the connection dropped without commit
Rollback(h) ==
  /\ UNCHANGED tables
  /\ tx' = IF lock = h THEN NoTx ELSE tx
  /\ lock' = IF lock = h THEN 0 ELSE lock

\* mutant: no busy timeout, the first write waits for the lock for ever
StoreError_NoTimeout(h, first_write) ==
  IF pc[h] = first_write THEN FALSE ELSE lock = h

\* A statement of an open write transaction can fail with a store error
\* (sqlite3.Error); the first write of a connection fails when another
\* connection keeps the write lock past the busy timeout.
StoreError(h, first_write) ==
  IF pc[h] = first_write THEN lock \notin {0, h} ELSE lock = h

\* str(e) of that exception, which the 500 response carries
ExceptionText(h, first_write) ==
  IF pc[h] = first_write THEN "database is locked" ELSE "store error"

internal_error(message, text) == [status |-> 500, error |-> message, cause |-> text]

\* ------------------------------------------------------------ add_sale
\* mutant: the reason names no sale
SaleReason_NoId(sale_id) == <<"Sale #", 0>>

SaleReason(sale_id) == <<"Sale #", sale_id>>

\* mutant: the check also refuses a sale of all that is left
Insufficient_RefusesEqual(current_stock, quantity) == current_stock <= quantity

\* mutant: the check lets a sale take one unit more than there is
Insufficient_OffByOne(current_stock, quantity) == current_stock + 1 < quantity

Insufficient(current_stock, quantity) == current_stock < quantity

add_sale(h, product_id, quantity) ==
  /\ pc[h] = "idle"
  /\ RoomInLog
  /\ UNCHANGED <<tables, tx, lock>>
  /\ IF product_id = 0 \/ quantity = 0
       THEN Return(h, format_error("product_id and quantity are required", 400))
     ELSE IF quantity <= 0
       THEN Return(h, format_error("Quantity must be greater than 0", 400))
     ELSE IF product_id \notin DOMAIN products
       THEN Return(h, format_error("Product not found", 404))
     ELSE IF Insufficient(products[product_id].stock_quantity, quantity)
       THEN Return(h, [status |-> 400, error |-> "Insufficient stock",
                       available |-> products[product_id].stock_quantity,
                       requested |-> quantity])
     ELSE Goto(h, "sale_update",
               [op |-> "add_sale", product_id |-> product_id, quantity |-> quantity,
                current_stock |-> products[product_id].stock_quantity,
                price |-> products[product_id].price,
                new_stock |-> products[product_id].stock_quantity - quantity,
                total_price |-> products[product_id].price * quantity,
                sale_id |-> 0])

\* str(e) of the TypeError that comparing a JSON string with 0 raises
TypeErrorText == "'<=' not supported between instances of 'str' and 'int'"

\* the request's quantity is a JSON string: the empty string is falsy, any
\* other makes "quantity <= 0" raise TypeError -> except Exception -> 500
add_sale_text_quantity(h, product_id, quantity) ==
  /\ pc[h] = "idle"
  /\ UNCHANGED <<tables, tx, lock>>
  /\ IF product_id = 0 \/ quantity = ""
       THEN Return(h, format_error("product_id and quantity are required", 400))
       ELSE Return(h, internal_error("Failed to record sale", TypeErrorText))

add_sale_update(h) ==
  /\ pc[h] = "sale_update"
  /\ BeginWrite(h, [DB EXCEPT !.products[req[h].product_id].stock_quantity = req[h].new_stock])
  /\ UNCHANGED tables
  /\ Goto(h, "sale_insert", req[h])

add_sale_insert_sale(h) ==
  /\ pc[h] = "sale_insert"
  /\ lock = h
  /\ tx' = [tx EXCEPT !.sales = Append(@, [product_id |-> req[h].product_id,
                                            quantity |-> req[h].quantity,
                                            total_price |-> req[h].total_price,
                                            sale_date |-> CURRENT_TIMESTAMP(clock.now)])]
  /\ UNCHANGED <<tables, lock>>
  /\ Goto(h, "sale_log", [req[h] EXCEPT !.sale_id = Len(tx.sales) + 1])

add_sale_insert_log(h) ==
  /\ pc[h] = "sale_log"
  /\ lock = h
  /\ tx' = [tx EXCEPT !.stock_logs = Append(@, [product_id |-> req[h].product_id,
                                                 change_amount |-> -req[h].quantity,
                                                 reason |-> SaleReason(req[h].sale_id)])]
  /\ UNCHANGED <<tables, lock>>
  /\ Goto(h, "sale_commit", req[h])

add_sale_commit(h) ==
  /\ pc[h] = "sale_commit"
  /\ Commit(h)
  /\ Return(h, [status |-> 201, message |-> "Sale recorded",
                sale_id |-> req[h].sale_id,
                total_price |-> req[h].total_price,
                remaining_stock |-> req[h].new_stock])

\* except Exception: conn.rollback(); conn.close(); raise -> 500
add_sale_except(h) ==
  /\ pc[h] \in {"sale_update", "sale_insert", "sale_log", "sale_commit"}
  /\ StoreError(h, "sale_update")
  /\ Rollback(h)
  /\ Return(h, internal_error("Failed to record sale", ExceptionText(h, "sale_update")))

\* ------------------------------------------------------------- restock
\* mutant: the reason of the request is dropped
RestockReason_AlwaysDefault(reason) == <<"Manual restock">>

RestockReason(reason) == IF reason = <<>> THEN <<"Manual restock">> ELSE reason

restock(h, product_id, quantity, reason) ==
  /\ pc[h] = "idle"
  /\ RoomInLog
  /\ UNCHANGED <<tables, tx, lock>>
  /\ IF product_id = 0 \/ quantity = 0
       THEN Return(h, format_error("product_id and quantity are required", 400))
     ELSE IF quantity <= 0
       THEN Return(h, format_error("Quantity must be greater than 0", 400))
     ELSE IF product_id \notin DOMAIN products
       THEN Return(h, format_error("Product not found", 404))
     ELSE Goto(h, "restock_update",
               [op |-> "restock", product_id |-> product_id, quantity |-> quantity,
                reason |-> RestockReason(reason),
                current_stock |-> products[product_id].stock_quantity,
                new_stock |-> products[product_id].stock_quantity + quantity])

\* the request's quantity is a JSON string, as in add_sale
restock_text_quantity(h, product_id, quantity) ==
  /\ pc[h] = "idle"
  /\ UNCHANGED <<tables, tx, lock>>
  /\ IF product_id = 0 \/ quantity = ""
       THEN Return(h, format_error("product_id and quantity are required", 400))
       ELSE Return(h, internal_error("Failed to restock", TypeErrorText))

\* mutant: the restock also resets the product's threshold
restock_update_ResetsThreshold(h) ==
  /\ pc[h] = "restock_update"
  /\ BeginWrite(h, [DB EXCEPT !.products[req[h].product_id].stock_quantity = req[h].new_stock,
                              !.products[req[h].product_id].min_stock_level = 0])
  /\ UNCHANGED tables
  /\ Goto(h, "restock_log", req[h])

restock_update(h) ==
  /\ pc[h] = "restock_update"
  /\ BeginWrite(h, [DB EXCEPT !.products[req[h].product_id].stock_quantity = req[h].new_stock])
  /\ UNCHANGED tables
  /\ Goto(h, "restock_log", req[h])

\* mutant: a restock of the product of the last log row is added to that
\* row instead of getting a row of its own
restock_insert_log_Merges(h) ==
  /\ pc[h] = "restock_log"
  /\ lock = h
  /\ LET logs == tx.stock_logs
         n == Len(logs)
     IN tx' = [tx EXCEPT !.stock_logs =
                 IF n > 0 /\ logs[n].product_id = req[h].product_id
                   THEN [logs EXCEPT ![n].change_amount = @ + req[h].quantity]
                   ELSE Append(logs, [product_id |-> req[h].product_id,
                                      change_amount |-> req[h].quantity,
                                      reason |-> req[h].reason])]
  /\ UNCHANGED <<tables, lock>>
  /\ Goto(h, "restock_commit", req[h])

restock_insert_log(h) ==
  /\ pc[h] = "restock_log"
  /\ lock = h
  /\ tx' = [tx EXCEPT !.stock_logs = Append(@, [product_id |-> req[h].product_id,
                                                 change_amount |-> req[h].quantity,
                                                 reason |-> req[h].reason])]
  /\ UNCHANGED <<tables, lock>>
  /\ Goto(h, "restock_commit", req[h])

restock_commit(h) ==
  /\ pc[h] = "restock_commit"
  /\ Commit(h)
  /\ Return(h, [status |-> 200, message |-> "Restocked", new_stock |-> req[h].new_stock])

\* except Exception: conn.rollback(); conn.close(); raise -> 500
restock_except(h) ==
  /\ pc[h] \in {"restock_update", "restock_log", "restock_commit"}
  /\ StoreError(h, "restock_update")
  /\ Rollback(h)
  /\ Return(h, internal_error("Failed to restock", ExceptionText(h, "restock_update")))

\* ------------------------------------------------------ create_product
\* mutant: the strings are taken as sent
strip_Identity(s) == s

\* str.strip(), on the strings the requests carry
strip(s) ==
  CASE s = " " -> ""
    [] s = " A" -> "A"
    [] OTHER -> s

\* mutant: no sku is ever found in use
SkuTaken_Never(prods, sku, except_id) == FALSE

\* mutant: the product's own row counts as a collision
SkuTaken_OwnRowToo(prods, sku, except_id) ==
  \E i \in DOMAIN prods : prods[i].sku = sku

\* SELECT id FROM products WHERE sku = ? [AND id != ?]
SkuTaken(prods, sku, except_id) ==
  \E i \in DOMAIN prods : i # except_id /\ prods[i].sku = sku

\* mutant: the products table has no unique constraint
UniqueViolation_NotEnforced(prods, sku, except_id) == FALSE

\* the UNIQUE constraint on products.sku, which the store checks when a
\* row is inserted or its sku is updated
UniqueViolation(prods, sku, except_id) ==
  \E i \in DOMAIN prods : i # except_id /\ prods[i].sku = sku

\* mutant: every category id is taken to exist
CategoryExists_Always(cats, category_id) == TRUE

\* SELECT id FROM categories WHERE id = ?
CategoryExists(cats, category_id) == category_id \in cats

\* the values of the row to insert
CreateRow(data) == [data EXCEPT !.name = strip(@), !.sku = strip(@)]

create_validate(data) ==
  IF strip(data.name) = "" \/ strip(data.sku) = ""
    THEN format_error("Name and SKU are required", 400)
  ELSE IF data.price <= 0
    THEN format_error("Price must be greater than 0", 400)
  ELSE IF data.purchasing_price < 0
    THEN format_error("Purchasing price cannot be negative", 400)
  ELSE IF data.stock_quantity < 0
    THEN format_error("Stock quantity cannot be negative", 400)
  ELSE NoRes

CreatesInFlight == Cardinality({h \in Handlers : req[h].op = "create_product"})

create_product(h, data) ==
  /\ pc[h] = "idle"
  /\ RoomInLog
  /\ Len(products) + CreatesInFlight < MaxProducts
  /\ UNCHANGED <<tables, tx, lock>>
  /\ IF create_validate(data) # NoRes
       THEN Return(h, create_validate(data))
     ELSE IF SkuTaken(products, strip(data.sku), 0)
       THEN Return(h, format_error("SKU already exists", 400))
     ELSE IF ~ CategoryExists(categories, data.category_id)
       THEN Return(h, format_error("Category not found", 404))
     ELSE Goto(h, "create_insert",
               [op |-> "create_product", data |-> CreateRow(data), product_id |-> 0])

\* mutant: an initial stock of zero is logged as well
InitialStockLogged_ZeroToo(stock_quantity) == stock_quantity >= 0

InitialStockLogged(stock_quantity) == stock_quantity > 0

create_insert(h) ==
  /\ pc[h] = "create_insert"
  /\ lock = 0
  /\ UNCHANGED tables
  /\ IF UniqueViolation(products, req[h].data.sku, 0)
       THEN \* sqlite3.IntegrityError: conn.rollback(); conn.close()
            /\ UNCHANGED <<tx, lock>>
            /\ Return(h, format_error("SKU already exists", 400))
       ELSE /\ BeginWrite(h, [DB EXCEPT !.products = Append(@, req[h].data)])
            /\ Goto(h,
                    IF InitialStockLogged(req[h].data.stock_quantity)
                      THEN "create_log" ELSE "create_commit",
                    [req[h] EXCEPT !.product_id = Len(products) + 1])

create_insert_log(h) ==
  /\ pc[h] = "create_log"
  /\ lock = h
  /\ tx' = [tx EXCEPT !.stock_logs = Append(@, [product_id |-> req[h].product_id,
                                                 change_amount |-> req[h].data.stock_quantity,
                                                 reason |-> <<"Initial stock">>])]
  /\ UNCHANGED <<tables, lock>>
  /\ Goto(h, "create_commit", req[h])

create_commit(h) ==
  /\ pc[h] = "create_commit"
  /\ Commit(h)
  /\ Return(h, [status |-> 201, message |-> "Product created",
                product_id |-> req[h].product_id])

\* except Exception -> 500; the connection is dropped without a commit
create_except(h) ==
  /\ pc[h] \in {"create_insert", "create_log", "create_commit"}
  /\ StoreError(h, "create_insert")
  /\ Rollback(h)
  /\ Return(h, internal_error("Failed to create product", ExceptionText(h, "create_insert")))

\* ------------------------------------------------------ update_product
\* the checks up to purchasing_price, with the SELECTs they make
update_check_fields(prods, product_id, data) ==
  IF product_id \notin DOMAIN prods
    THEN format_error("Product not found", 404)
  ELSE IF "name" \in DOMAIN data /\ strip(data.name) = ""
    THEN format_error("Name cannot be empty", 400)
  ELSE IF "sku" \in DOMAIN data /\ strip(data.sku) = ""
    THEN format_error("SKU cannot be empty", 400)
  ELSE IF "sku" \in DOMAIN data /\ SkuTaken(prods, strip(data.sku), product_id)
    THEN format_error("SKU already exists", 400)
  ELSE IF "category_id" \in DOMAIN data /\ ~ CategoryExists(categories, data.category_id)
    THEN format_error("Category not found", 404)
  ELSE IF "price" \in DOMAIN data /\ data.price <= 0
    THEN format_error("Price must be greater than 0", 400)
  ELSE IF "purchasing_price" \in DOMAIN data /\ data.purchasing_price < 0
    THEN format_error("Purchasing price cannot be negative", 400)
  ELSE NoRes

UpdatableFields ==
  {"name", "sku", "category_id", "price", "purchasing_price", "stock_quantity",
   "min_stock_level"}

\* mutant: min_stock_level is not checked
update_check_stock_NoMinCheck(data) ==
  IF "stock_quantity" \in DOMAIN data /\ data.stock_quantity < 0
    THEN format_error("Stock quantity cannot be negative", 400)
  ELSE IF DOMAIN data \cap UpdatableFields = {}
    THEN format_error("No fields to update", 400)
  ELSE NoRes

\* the checks from stock_quantity on
update_check_stock(data) ==
  IF "stock_quantity" \in DOMAIN data /\ data.stock_quantity < 0
    THEN format_error("Stock quantity cannot be negative", 400)
  ELSE IF "min_stock_level" \in DOMAIN data /\ data.min_stock_level < 0
    THEN format_error("Min stock level cannot be negative", 400)
  ELSE IF DOMAIN data \cap UpdatableFields = {}
    THEN format_error("No fields to update", 400)
  ELSE NoRes

StockChange(prods, product_id, data) ==
  IF "stock_quantity" \in DOMAIN data
    THEN data.stock_quantity - prods[product_id].stock_quantity
    ELSE 0

\* the SELECT of the current stock and what follows it, up to the UPDATE
update_select_stock(h, product_id, data) ==
  IF update_check_stock(data) # NoRes
    THEN Return(h, update_check_stock(data))
    ELSE Goto(h, "upd_update",
              [op |-> "update_product", product_id |-> product_id, data |-> data,
               stock_change |-> StockChange(products, product_id, data)])

\* the values of the UPDATE's parameters
UpdateParams(data) ==
  [f \in DOMAIN data |-> IF f \in {"name", "sku"} THEN strip(data[f]) ELSE data[f]]

update_product(h, product_id, data) ==
  /\ pc[h] = "idle"
  /\ RoomInLog
  /\ UNCHANGED <<tables, tx, lock>>
  /\ IF update_check_fields(products, product_id, data) # NoRes
       THEN Return(h, update_check_fields(products, product_id, data))
     ELSE IF {"sku", "stock_quantity"} \subseteq DOMAIN data
       THEN Goto(h, "upd_select",
                 [op |-> "update_product", product_id |-> product_id,
                  data |-> UpdateParams(data)])
     ELSE update_select_stock(h, product_id, UpdateParams(data))

update_product_select(h) ==
  /\ pc[h] = "upd_select"
  /\ UNCHANGED <<tables, tx, lock>>
  /\ update_select_stock(h, req[h].product_id, req[h].data)

\* mutant: the UPDATE resets the stock when it is not named
UpdatedRow_ClearsStock(row, data) ==
  [f \in DOMAIN row |-> IF f \in DOMAIN data THEN data[f]
                        ELSE IF f = "stock_quantity" THEN 0 ELSE row[f]]

UpdatedRow(row, data) ==
  [f \in DOMAIN row |-> IF f \in DOMAIN data THEN data[f] ELSE row[f]]

\* mutant: every update that names stock_quantity is logged
StockChangeLogged_Always(data, stock_change) == "stock_quantity" \in DOMAIN data

\* mutant: only an increase of the stock is logged
StockChangeLogged_OnlyIncrease(data, stock_change) ==
  "stock_quantity" \in DOMAIN data /\ stock_change > 0

StockChangeLogged(data, stock_change) ==
  "stock_quantity" \in DOMAIN data /\ stock_change # 0

update_product_update(h) ==
  /\ pc[h] = "upd_update"
  /\ lock = 0
  /\ UNCHANGED tables
  /\ IF /\ "sku" \in DOMAIN req[h].data
        /\ UniqueViolation(products, req[h].data.sku, req[h].product_id)
       THEN \* sqlite3.IntegrityError reaches except Exception -> 500
            /\ UNCHANGED <<tx, lock>>
            /\ Return(h, internal_error("Failed to update product",
                                         "UNIQUE constraint failed: products.sku"))
       ELSE /\ BeginWrite(h, [DB EXCEPT !.products[req[h].product_id] =
                                          UpdatedRow(@, req[h].data)])
            /\ Goto(h,
                    IF StockChangeLogged(req[h].data, req[h].stock_change)
                      THEN "upd_log" ELSE "upd_commit",
                    req[h])

\* mutant: the two labels are swapped
AdjustReason_Swapped(stock_change) ==
  IF stock_change > 0 THEN <<"Stock reduction">> ELSE <<"Stock adjustment">>

AdjustReason(stock_change) ==
  IF stock_change > 0 THEN <<"Stock adjustment">> ELSE <<"Stock reduction">>

update_product_insert_log(h) ==
  /\ pc[h] = "upd_log"
  /\ lock = h
  /\ tx' = [tx EXCEPT !.stock_logs = Append(@, [product_id |-> req[h].product_id,
                                                 change_amount |-> req[h].stock_change,
                                                 reason |-> AdjustReason(req[h].stock_change)])]
  /\ UNCHANGED <<tables, lock>>
  /\ Goto(h, "upd_commit", req[h])

update_product_commit(h) ==
  /\ pc[h] = "upd_commit"
  /\ Commit(h)
  /\ Return(h, [status |-> 200, message |-> "Product updated"])

\* except Exception -> 500; the connection is dropped without a commit
update_product_except(h) ==
  /\ pc[h] \in {"upd_update", "upd_log", "upd_commit"}
  /\ StoreError(h, "upd_update")
  /\ Rollback(h)
  /\ Return(h, internal_error("Failed to update product", ExceptionText(h, "upd_update")))

\* ------------------------------------------------------- seed scripts
\* The scripts are run from the command line on the database file of the
\* application (here: while no request is in flight).  Each run is one
\* action; what random draws the nondeterministic choices stand for is
\* said at each.  A run ends with the line it prints.
SeedDone == [status |-> 0, message |-> "Database seeded successfully!"]
SeedFailed == [status |-> 1, error |-> "Database error"]

SeedSku(i) == <<"SKU-001", "SKU-002", "SKU-003", "SKU-004">>[i]
RealSku(i) == <<"HOME-001", "HOME-002", "HOME-003", "HOME-004">>[i]
SeedName(i) ==
  <<"Laptop Pro 15", "Wireless Mouse", "USB-C Cable", "Bluetooth Headphones">>[i]
RealName(i) ==
  <<"Air Fryer 5.5L", "Non-Stick Cookware Set (12-Piece)",
    "Electric Kettle (1.7L)", "Memory Foam Pillow">>[i]

SeedProductIds == 1..SeedProducts
SeedStocks == 0..MaxQty          \* random.randint(0, 100)
SeedChanges == 1..MaxQty         \* random.randint(10, 50)
SeedQuantities == 1..MaxQty      \* random.randint(1, 5)
SeedCategoryIds == {1, NumCategories}   \* random.choice(range(1, 9))
SeedLogReasons == {<<"Initial stock">>, <<"Restock from supplier">>}

\* the sales rows of a run: for each drawn (product, quantity) the total
\* is the product's price times the quantity; never a stock decrement,
\* never a stock-log row.  The sale_date is the local reading of a moment
\* of one of the last 7 days (here: of today, day_offset 0).
SeedSalesRows(rows, draws) ==
  [k \in DOMAIN draws |->
     [product_id |-> draws[k][1],
      quantity |-> draws[k][2],
      total_price |-> rows[draws[k][1]].price * draws[k][2],
      sale_date |-> isoformat(clock.now, clock.tz)]]

SeedSalesDraws ==
  UNION {[1..n -> SeedProductIds \X SeedQuantities] : n \in 1..SeedSales}

\* random.sample(product_ids, 20): distinct products, in any order
SeedLogSamples ==
  {ps \in [1..SeedLogSample -> SeedProductIds] :
     \A i, j \in DOMAIN ps : i # j => ps[i] # ps[j]}

\* python seed_sqlite.py
seed ==
  /\ \A h \in Handlers : pc[h] = "idle"
  /\ lock = 0
  /\ IF schema = "none"
       \* no tables: the first DELETE raises, the script rolls back and ends
       THEN /\ UNCHANGED tables
            /\ res' = SeedFailed
       ELSE
            /\ categories' = 1..NumCategories
            /\ \E stock \in [SeedProductIds -> SeedStocks],
                  cat \in [SeedProductIds -> SeedCategoryIds],
                  draws \in SeedSalesDraws,
                  ps \in SeedLogSamples,
                  change \in SeedChanges,
                  reason \in SeedLogReasons :
                 LET rows == [i \in SeedProductIds |->
                                [name |-> SeedName(i), sku |-> SeedSku(i),
                                 category_id |-> cat[i], price |-> 10,
                                 purchasing_price |-> 0,
                                 stock_quantity |-> stock[i],
                                 min_stock_level |-> DefaultMinStockLevel]]
                 IN /\ products' = rows
                    /\ sales' = SeedSalesRows(rows, draws)
                    /\ stock_logs' = [k \in DOMAIN ps |->
                                        [product_id |-> ps[k],
                                         change_amount |-> change,
                                         reason |-> reason]]
            /\ res' = SeedDone
  /\ UNCHANGED <<tx, lock, pc, req, clock, schema>>

\* CREATE TABLE IF NOT EXISTS ... of init_db_if_needed
init_db_if_needed(s) == IF s = "none" THEN "script" ELSE s

\* the six categories of seed_real_products, INSERT OR IGNORE: Electronics
\* (one of init_db's) and the NumRealCategories others
RealCategories ==
  {1} \cup ((NumCategories + 1)..(NumCategories + NumRealCategories))

\* python seed_real_products.py: init_db_if_needed(), then the rows are
\* deleted and the categories inserted, each with a commit, then the
\* products and the sales are inserted
seed_real_products ==
  /\ \A h \in Handlers : pc[h] = "idle"
  /\ lock = 0
  /\ schema' = init_db_if_needed(schema)
  /\ categories' = categories \cup RealCategories
  /\ IF init_db_if_needed(schema) = "script"
       \* no purchasing_price column: INSERT INTO products (...,
       \* purchasing_price, ...) raises, the script rolls back and ends
       THEN /\ products' = <<>>
            /\ sales' = <<>>
            /\ stock_logs' = <<>>
            /\ res' = SeedFailed
       ELSE
            /\ \E stock \in [SeedProductIds -> SeedStocks],
                  draws \in SeedSalesDraws :
                 LET rows == [i \in SeedProductIds |->
                                [name |-> RealName(i), sku |-> RealSku(i),
                                 category_id |-> NumCategories + 1, price |-> 10,
                                 purchasing_price |-> 6,
                                 stock_quantity |-> stock[i],
                                 min_stock_level |-> DefaultMinStockLevel]]
                 IN /\ products' = rows
                    /\ sales' = SeedSalesRows(rows, draws)
                    /\ stock_logs' = <<>>
            /\ res' = SeedDone
  /\ UNCHANGED <<tx, lock, pc, req, clock>>

\* INSERT OR IGNORE INTO categories of init_db: a name that is there is
\* left alone
InitDbCategories_Replace(cats) == 1..NumCategories

InitDbCategories(cats) == cats \cup 1..NumCategories

\* init_db() on the database file as it is: CREATE TABLE IF NOT EXISTS,
\* ALTER TABLE products ADD COLUMN purchasing_price (DEFAULT 0) if the
\* column is missing, and the categories
init_db_again ==
  /\ schema' = "app"
  /\ categories' = InitDbCategories(categories)
  /\ UNCHANGED <<products, sales, stock_logs>>

\* python app.py: init_db() before the server starts
app_main ==
  /\ \A h \in Handlers : pc[h] = "idle"
  /\ lock = 0
  /\ init_db_again
  /\ res' = [status |-> 0, message |-> "Database ready!"]
  /\ UNCHANGED <<tx, lock, pc, req, clock>>

\* python test_server.py: init_db(), then SELECT COUNT(*) FROM products
test_server ==
  /\ \A h \in Handlers : pc[h] = "idle"
  /\ lock = 0
  /\ init_db_again
  /\ res' = [status |-> 0, message |-> "All tests passed! Server is ready to run.",
              product_count |-> Len(products)]
  /\ UNCHANGED <<tx, lock, pc, req, clock>>

\* a new database file, and the scripts run on it one after the other
SchemaInit ==
  /\ categories = {}
  /\ products = <<>>
  /\ sales = <<>>
  /\ stock_logs = <<>>
  /\ tx = NoTx
  /\ lock = 0
  /\ pc = [h \in Handlers |-> "idle"]
  /\ req = [h \in Handlers |-> NoReq]
  /\ res = NoRes
  /\ clock = [now |-> 0, tz |-> 0]
  /\ schema = "none"

SchemaNext ==
  \/ app_main
  \/ test_server
  \/ seed
  \/ seed_real_products

SchemaSpec == SchemaInit /\ [][SchemaNext]_vars

\* ----------------------------------------------------------- dashboard
\* datetime - timedelta(days=n), on the stored reading
MinusDays(text, n) == [text EXCEPT !.ticks = @ - n * TicksPerDay]

\* SQLite's DATE(text): the date part of the reading
DATE(text) == text.ticks \div TicksPerDay
TimeOfDay(text) == text.ticks % TicksPerDay

\* text >= text in SQLite: character by character, date first, then the
\* separator (' ' sorts before 'T'), then the time of day
SepRank(sep) == IF sep = " " THEN 0 ELSE 1

TextGE(a, b) ==
  \/ DATE(a) > DATE(b)
  \/ /\ DATE(a) = DATE(b)
     /\ \/ SepRank(a.sep) > SepRank(b.sep)
        \/ a.sep = b.sep /\ TimeOfDay(a) >= TimeOfDay(b)

RECURSIVE SumSeq(_)
SumSeq(xs) == IF xs = <<>> THEN 0 ELSE Head(xs) + SumSeq(Tail(xs))

\* SUM(price * stock_quantity); amounts are whole cents, which
\* round(total_value, 2) leaves as they are
total_value(rows) ==
  SumSeq([i \in DOMAIN rows |-> rows[i].price * rows[i].stock_quantity])

total_profit(rows) ==
  SumSeq([i \in DOMAIN rows |->
            (rows[i].price - rows[i].purchasing_price) * rows[i].stock_quantity])

\* mutant: a product at its threshold is not counted
LowStock_Strict(row) == row.stock_quantity < row.min_stock_level

\* WHERE stock_quantity <= min_stock_level
LowStock(row) == row.stock_quantity <= row.min_stock_level

low_stock_count(rows) == Cardinality({i \in DOMAIN rows : LowStock(rows[i])})

total_orders(rows) == Len(rows)

\* SUM(total_price) ... WHERE sale_date >= ? GROUP BY DATE(sale_date),
\* looked up for the date d (0 when there is no such group)
daily_total(rows, cutoff, d) ==
  SumSeq([i \in DOMAIN rows |->
            IF TextGE(rows[i].sale_date, cutoff) /\ DATE(rows[i].sale_date) = d
              THEN rows[i].total_price ELSE 0])

\* for i in range(7): the date of now - (6 - i) days and that day's total
sales_trend(rows, now) ==
  [i \in 1..TrendDays |->
     [date |-> DATE(MinusDays(now, TrendDays - i)),
      value |-> daily_total(rows, MinusDays(now, TrendDays),
                            DATE(MinusDays(now, TrendDays - i)))]]

\* GET /api/dashboard-stats: reads only
dashboard_stats(h) ==
  /\ pc[h] = "idle"
  /\ UNCHANGED <<tables, tx, lock>>
  /\ Return(h, [status |-> 200,
                total_value |-> total_value(products),
                total_profit |-> total_profit(products),
                low_stock_count |-> low_stock_count(products),
                total_orders |-> total_orders(sales),
                sales_trend |-> sales_trend(sales, isoformat(clock.now, clock.tz))])

\* The same handler statement by statement, as it runs next to other
\* handlers: each SELECT is a transaction of its own (autocommit) and
\* reads what is committed at that moment.
dashboard_select_value(h) ==
  /\ pc[h] = "idle"
  /\ UNCHANGED <<tables, tx, lock>>
  /\ Goto(h, "dash_profit",
          [op |-> "dashboard_stats", total_value |-> total_value(products)])

dashboard_select_profit(h) ==
  /\ pc[h] = "dash_profit"
  /\ UNCHANGED <<tables, tx, lock>>
  /\ Goto(h, "dash_low",
          [op |-> "dashboard_stats", total_value |-> req[h].total_value,
           total_profit |-> total_profit(products)])

dashboard_select_low(h) ==
  /\ pc[h] = "dash_low"
  /\ UNCHANGED <<tables, tx, lock>>
  /\ Goto(h, "dash_orders",
          [op |-> "dashboard_stats", total_value |-> req[h].total_value,
           total_profit |-> req[h].total_profit,
           low_stock_count |-> low_stock_count(products)])

dashboard_select_orders(h) ==
  /\ pc[h] = "dash_orders"
  /\ UNCHANGED <<tables, tx, lock>>
  /\ Goto(h, "dash_trend",
          [op |-> "dashboard_stats", total_value |-> req[h].total_value,
           total_profit |-> req[h].total_profit,
           low_stock_count |-> req[h].low_stock_count,
           total_orders |-> total_orders(sales)])

dashboard_select_trend(h) ==
  /\ pc[h] = "dash_trend"
  /\ UNCHANGED <<tables, tx, lock>>
  /\ Return(h, [status |-> 200,
                total_value |-> req[h].total_value,
                total_profit |-> req[h].total_profit,
                low_stock_count |-> req[h].low_stock_count,
                total_orders |-> req[h].total_orders,
                sales_trend |-> sales_trend(sales, isoformat(clock.now, clock.tz))])

\* The stores the dashboard is computed on: up to MaxProducts products of
\* any stock, and up to DashSales sales of the last DashDays days, written
\* by seed() or seed_real_products() (local isoformat) and, after those,
\* by add_sale (CURRENT_TIMESTAMP) in the order of their instants.
TimeZones == {-1, 0, 1}
DashNows == {(DashDays - 1) * TicksPerDay + k : k \in 0..(TicksPerDay - 1)}
SaleInstants == TicksPerDay..(DashDays * TicksPerDay - 1)

DashProducts ==
  {[i \in 1..n |->
      [name |-> SeedName(i), sku |-> SeedSku(i), category_id |-> 1,
       price |-> 50, purchasing_price |-> 30,
       stock_quantity |-> stock[i], min_stock_level |-> 1]] :
     n \in 0..MaxProducts, stock \in [1..MaxProducts -> 0..MaxQty]}

DashSaleRows(c) ==
  {[product_id |-> 1, quantity |-> 1, total_price |-> 50, sale_date |-> d] :
     d \in {CURRENT_TIMESTAMP(t) : t \in {u \in SaleInstants : u <= c.now}}
            \cup {isoformat(t, c.tz) : t \in {u \in SaleInstants : u <= c.now}}}

DashSalesOf(c) ==
  {rows \in UNION {[1..n -> DashSaleRows(c)] : n \in 0..DashSales} :
     \A i, j \in DOMAIN rows :
       i < j =>
         /\ ~ (rows[i].sale_date.sep = " " /\ rows[j].sale_date.sep = "T")
         /\ (rows[i].sale_date.sep = " " /\ rows[j].sale_date.sep = " ") =>
              rows[i].sale_date.ticks <= rows[j].sale_date.ticks}

DashInit ==
  /\ categories = 1..NumCategories
  /\ clock \in [now : DashNows, tz : TimeZones]
  /\ schema = "app"
  /\ products \in DashProducts
  /\ sales \in DashSalesOf(clock)
  /\ stock_logs = <<>>
  /\ tx = NoTx
  /\ lock = 0
  /\ pc = [h \in Handlers |-> "idle"]
  /\ req = [h \in Handlers |-> NoReq]
  /\ res = NoRes

DashNext == dashboard_stats(1)

DashSpec == DashInit /\ [][DashNext]_vars

\* ------------------------------------------------------------ read paths
\* time passes
tick ==
  /\ clock.now < DashDays * TicksPerDay - 1
  /\ clock' = [clock EXCEPT !.now = @ + 1]
  /\ UNCHANGED <<tables, tx, lock, pc, req, res, schema>>

\* a read: one statement on the committed tables, nothing written
ReadOnly_TakesLock(h, response) ==
  /\ pc[h] = "idle"
  /\ lock' = IF lock = 0 THEN h ELSE lock
  /\ UNCHANGED <<tables, tx>>
  /\ Return(h, response)

ReadOnly(h, response) ==
  /\ pc[h] = "idle"
  /\ UNCHANGED <<tables, tx, lock>>
  /\ Return(h, response)

Min(a, b) == IF a <= b THEN a ELSE b

\* FROM sales s JOIN products p ON s.product_id = p.id
JoinedSale(k) ==
  [id |-> k,
   product_id |-> sales[k].product_id,
   product_name |-> products[sales[k].product_id].name,
   sku |-> products[sales[k].product_id].sku,
   quantity |-> sales[k].quantity,
   total_price |-> sales[k].total_price,
   sale_date |-> sales[k].sale_date]

\* ORDER BY s.sale_date DESC: the stored texts compared as text; rows of
\* equal sale_date come in any order
SalesOrders ==
  LET ids == {k \in DOMAIN sales : sales[k].product_id \in DOMAIN products}
  IN {order \in [1..Cardinality(ids) -> ids] :
        /\ \A i, j \in DOMAIN order : i # j => order[i] # order[j]
        /\ \A i, j \in DOMAIN order :
             i < j => TextGE(sales[order[i]].sale_date, sales[order[j]].sale_date)}

\* GET /api/sales?limit=...: the handler reads no query argument; the
\* query ends with LIMIT 100
get_sales(h, limit) ==
  \E order \in SalesOrders :
    ReadOnly(h, [status |-> 200,
                 sales |-> [i \in 1..Min(SalesLimit, Len(order)) |->
                              JoinedSale(order[i])]])

\* the names of the categories, by id: the 8 of init_db and seed(), then
\* the 5 that seed_real_products adds to them
CategoryName(id) ==
  <<"Electronics", "Clothing", "Food & Beverages", "Books", "Home & Garden",
    "Sports & Outdoors", "Toys & Games", "Health & Beauty",
    "Home & Kitchen", "Fitness & Outdoors", "Health & Personal Care",
    "Office & Hobby", "Apparel & Lifestyle">>[id]

\* the characters of the texts that product lists are searched with
Chars(s) ==
  CASE s = "" -> <<>>
    [] s = "Mug" -> <<"M", "u", "g">>
    [] s = "cap" -> <<"c", "a", "p">>
    [] s = "M-1" -> <<"M", "-", "1">>
    [] s = "C-2" -> <<"C", "-", "2">>
    [] s = "M-3" -> <<"M", "-", "3">>
    [] s = "C-4" -> <<"C", "-", "4">>
    [] s = "mug" -> <<"m", "u", "g">>
    [] s = "c" -> <<"c">>
    [] s = "_" -> <<"_">>
    [] s = "x" -> <<"x">>
    [] s = "Widget" -> <<"W", "i", "d", "g", "e", "t">>
    [] s = "A" -> <<"A">>

\* the character's code (the order of BINARY collation)
Code(c) ==
  CASE c = "-" -> 45 [] c = "1" -> 49 [] c = "2" -> 50 [] c = "3" -> 51
    [] c = "4" -> 52 [] c = "C" -> 67
    [] c = "M" -> 77 [] c = "_" -> 95 [] c = "a" -> 97 [] c = "c" -> 99
    [] c = "g" -> 103 [] c = "m" -> 109 [] c = "p" -> 112 [] c = "u" -> 117
    [] c = "x" -> 120 [] c = "A" -> 65 [] c = "W" -> 87 [] c = "d" -> 100
    [] c = "e" -> 101 [] c = "i" -> 105 [] c = "t" -> 116

\* LIKE folds the case of ASCII letters
Lower(c) == CASE c = "C" -> "c" [] c = "M" -> "m" [] OTHER -> c

\* str.lower() of the low_stock_only argument
lower(s) == CASE s = "True" -> "true" [] OTHER -> s

\* text LIKE pattern: % matches any run of characters, _ any one character
RECURSIVE Like(_, _)
Like(text, pattern) ==
  IF pattern = <<>> THEN text = <<>>
  ELSE IF Head(pattern) = "%"
    THEN \/ Like(text, Tail(pattern))
         \/ text # <<>> /\ Like(Tail(text), pattern)
  ELSE /\ text # <<>>
       /\ Head(pattern) = "_" \/ Lower(Head(pattern)) = Lower(Head(text))
       /\ Like(Tail(text), Tail(pattern))

\* a <= b as texts, character by character
RECURSIVE TextLE(_, _)
TextLE(a, b) ==
  IF a = <<>> THEN TRUE
  ELSE IF b = <<>> THEN FALSE
  ELSE IF Head(a) = Head(b) THEN TextLE(Tail(a), Tail(b))
  ELSE Code(Head(a)) < Code(Head(b))

\* the WHERE clause get_products builds
ProductSelected(row, search, low_stock_only) ==
  /\ search # "" =>
       LET search_pattern == <<"%">> \o Chars(search) \o <<"%">>
       IN Like(Chars(row.name), search_pattern) \/ Like(Chars(row.sku), search_pattern)
  /\ low_stock_only => row.stock_quantity <= row.min_stock_level

ListedProduct(p) ==
  [id |-> p, name |-> products[p].name, sku |-> products[p].sku,
   category_id |-> products[p].category_id,
   category_name |-> CategoryName(products[p].category_id),
   price |-> products[p].price,
   purchasing_price |-> products[p].purchasing_price,
   stock_quantity |-> products[p].stock_quantity,
   min_stock_level |-> products[p].min_stock_level]

\* ... JOIN categories ... WHERE ... ORDER BY p.name ASC; rows of equal
\* name come in any order
ProductOrders(search, low_stock_only) ==
  LET ids == {p \in DOMAIN products :
                /\ products[p].category_id \in categories
                /\ ProductSelected(products[p], search, low_stock_only)}
  IN {order \in [1..Cardinality(ids) -> ids] :
        /\ \A i, j \in DOMAIN order : i # j => order[i] # order[j]
        /\ \A i, j \in DOMAIN order :
             i < j => TextLE(Chars(products[order[i]].name),
                             Chars(products[order[j]].name))}

\* GET /api/products?search=...&low_stock_only=...
get_products(h, search, low_stock_only) ==
  \E order \in ProductOrders(strip(search), lower(low_stock_only) = "true") :
    ReadOnly(h, [status |-> 200,
                 products |-> [i \in DOMAIN order |-> ListedProduct(order[i])]])

\* the row of JOIN categories ... WHERE p.id = ?, if there is one
ProductFound_InStockOnly(product_id) ==
  /\ product_id \in DOMAIN products
  /\ products[product_id].category_id \in categories
  /\ products[product_id].stock_quantity > 0

ProductFound(product_id) ==
  /\ product_id \in DOMAIN products
  /\ products[product_id].category_id \in categories

\* GET /api/products/<product_id>
get_product(h, product_id) ==
  ReadOnly(h, IF ProductFound(product_id)
              THEN [status |-> 200, product |-> ListedProduct(product_id)]
              ELSE format_error("Product not found", 404))

\* the category ids in the order of their names
CategoriesByName == <<13, 4, 2, 1, 10, 3, 8, 11, 5, 9, 12, 6, 7>>

InCategories(id) == id \in categories

\* GET /api/categories: SELECT id, name FROM categories ORDER BY name ASC
get_categories(h) ==
  LET ids == SelectSeq(CategoriesByName, InCategories)
  IN ReadOnly(h, [status |-> 200,
                  categories |-> [i \in DOMAIN ids |->
                                    [id |-> ids[i], name |-> CategoryName(ids[i])]]])

ReportRow(p) ==
  [sku |-> products[p].sku, name |-> products[p].name,
   category_name |-> CategoryName(products[p].category_id),
   price |-> products[p].price,
   stock_quantity |-> products[p].stock_quantity,
   min_stock_level |-> products[p].min_stock_level,
   status |-> IF products[p].stock_quantity = 0 THEN "Out of Stock"
              ELSE IF products[p].stock_quantity <= products[p].min_stock_level
                THEN "Low Stock"
              ELSE "In Stock"]

\* GET /api/export-pdf: one SELECT, then the document is built from its rows
export_pdf(h) ==
  \E order \in ProductOrders("", FALSE) :
    ReadOnly(h, [status |-> 200,
                 report |-> [i \in DOMAIN order |-> ReportRow(order[i])]])

\* GET /api/health on an existing database file: SELECT 1
health_check(h) ==
  ReadOnly(h, [status |-> 200, health |-> "healthy", database |-> "connected"])

\* the catalogues that are listed: up to MaxProducts products, named and
\* stocked differently
ListSearches == {"", "mug", "c", "_", "x"}
ListFlags == {"false", "true", "True"}

ListProducts ==
  {[i \in 1..n |->
      [name |-> name[i], sku |-> <<"M-1", "C-2", "M-3", "C-4">>[i],
       category_id |-> 1, price |-> 10, purchasing_price |-> 6,
       stock_quantity |-> stock[i], min_stock_level |-> 1]] :
     n \in 0..MaxProducts,
     name \in [1..MaxProducts -> {"Mug", "cap"}],
     stock \in [1..MaxProducts -> 0..MaxQty]}

ListInit ==
  /\ categories = 1..NumCategories
  /\ products \in ListProducts
  /\ sales = <<>>
  /\ stock_logs = <<>>
  /\ tx = NoTx
  /\ lock = 0
  /\ pc = [h \in Handlers |-> "idle"]
  /\ req = [h \in Handlers |-> NoReq]
  /\ res = NoRes
  /\ clock = [now |-> 0, tz |-> 0]
  /\ schema = "app"

ListNext == \E search \in ListSearches, low \in ListFlags : get_products(1, search, low)

ListSpec == ListInit /\ [][ListNext]_vars

\* ---------------------------------------------------------------- Next
\* worker h takes up a request drawn from the inputs in
Request(h, in) ==
  \/ \E p \in in.product_ids, q \in in.quantities : add_sale(h, p, q)
  \/ \E p \in in.product_ids, q \in in.quantities, r \in in.reasons :
       restock(h, p, q, r)
  \/ \E p \in in.product_ids, q \in in.text_quantities :
       add_sale_text_quantity(h, p, q)
  \/ \E p \in in.product_ids, q \in in.text_quantities :
       restock_text_quantity(h, p, q)
  \/ \E d \in in.creates : create_product(h, d)
  \/ \E p \in in.product_ids, d \in in.updates : update_product(h, p, d)

\* worker h runs the next statement of its handler
Step(h) ==
  \/ add_sale_update(h)
  \/ add_sale_insert_sale(h)
  \/ add_sale_insert_log(h)
  \/ add_sale_commit(h)
  \/ add_sale_except(h)
  \/ restock_update(h)
  \/ restock_insert_log(h)
  \/ restock_commit(h)
  \/ restock_except(h)
  \/ create_insert(h)
  \/ create_insert_log(h)
  \/ create_commit(h)
  \/ create_except(h)
  \/ update_product_select(h)
  \/ update_product_update(h)
  \/ update_product_insert_log(h)
  \/ update_product_commit(h)
  \/ update_product_except(h)

\* requests served one at a time, each to completion
SeqNext == Request(1, AllInputs) \/ Step(1)

SeqSpec == Init /\ [][SeqNext]_vars

\* concurrent request handlers (threaded server)
Next == \E h \in Handlers : Request(h, RaceInputs) \/ Step(h)

Spec == Init /\ [][Next]_vars

\* only RecordSale calls race, on products that CreateProduct has stocked
SalesNext ==
  \E h \in Handlers :
    \/ \E d \in RaceInputs.creates : create_product(h, d)
    \/ create_insert(h)
    \/ create_insert_log(h)
    \/ create_commit(h)
    \/ create_except(h)
    \/ \E p \in RaceInputs.product_ids, q \in RaceInputs.quantities : add_sale(h, p, q)
    \/ add_sale_update(h)
    \/ add_sale_insert_sale(h)
    \/ add_sale_insert_log(h)
    \/ add_sale_commit(h)
    \/ add_sale_except(h)

SalesSpec == Init /\ [][SalesNext]_vars

\* concurrent request handlers, each thread scheduled again and again:
\* a handler with a statement to run eventually runs it
LiveNext == \E h \in Handlers : Request(h, LiveInputs) \/ Step(h)

LiveSpec ==
  /\ Init
  /\ [][LiveNext]_vars
  /\ \A h \in Handlers : WF_vars(Step(h))

\* the seed scripts, and sales served one at a time on what they leave
SeedNext ==
  \/ seed
  \/ seed_real_products
  \/ \E p \in SeedProductIds : add_sale(1, p, 1)
  \/ add_sale_update(1)
  \/ add_sale_insert_sale(1)
  \/ add_sale_insert_log(1)
  \/ add_sale_commit(1)
  \/ add_sale_except(1)

SeedSpec == Init /\ [][SeedNext]_vars

\* The dashboard next to sales: a store as create_product leaves it (one
\* product with its initial stock logged), on which handler 1 computes the
\* dashboard while handler 2 records sales.
SnapshotInit ==
  /\ categories = 1..NumCategories
  /\ products = <<[BaseCreate EXCEPT !.stock_quantity = MaxQty]>>
  /\ sales = <<>>
  /\ stock_logs = <<[product_id |-> 1, change_amount |-> MaxQty,
                     reason |-> <<"Initial stock">>]>>
  /\ tx = NoTx
  /\ lock = 0
  /\ pc = [h \in Handlers |-> "idle"]
  /\ req = [h \in Handlers |-> NoReq]
  /\ res = NoRes
  /\ clock \in [now : DashNows, tz : TimeZones]
  /\ schema = "app"

SnapshotNext ==
  \/ dashboard_select_value(1)
  \/ dashboard_select_profit(1)
  \/ dashboard_select_low(1)
  \/ dashboard_select_orders(1)
  \/ dashboard_select_trend(1)
  \/ \E q \in 1..MaxQty : add_sale(2, 1, q)
  \/ add_sale_update(2)
  \/ add_sale_insert_sale(2)
  \/ add_sale_insert_log(2)
  \/ add_sale_commit(2)
  \/ add_sale_except(2)

SnapshotSpec == SnapshotInit /\ [][SnapshotNext]_vars

\* the sales history of a store that sales are recorded on as time passes
HistoryLimits == 1..MaxQty

HistoryNext ==
  \/ tick
  \/ \E q \in 1..MaxQty : add_sale(1, 1, q)
  \/ add_sale_update(1)
  \/ add_sale_insert_sale(1)
  \/ add_sale_insert_log(1)
  \/ add_sale_commit(1)
  \/ add_sale_except(1)
  \/ \E limit \in HistoryLimits : get_sales(1, limit)

HistorySpec == SnapshotInit /\ [][HistoryNext]_vars

\* the read-only requests, next to the writers of LiveSpec
Reads(h) ==
  \/ \E low \in {"false", "true"} : get_products(h, "", low)
  \/ \E p \in 1..MaxProducts : get_product(h, p)
  \/ dashboard_select_value(h)
  \/ dashboard_select_profit(h)
  \/ dashboard_select_low(h)
  \/ dashboard_select_orders(h)
  \/ dashboard_select_trend(h)
  \/ \E limit \in HistoryLimits : get_sales(h, limit)
  \/ get_categories(h)
  \/ export_pdf(h)
  \/ health_check(h)

ReadNext == \E h \in Handlers : Request(h, LiveInputs) \/ Step(h) \/ Reads(h)

ReadSpec == Init /\ [][ReadNext]_vars

\* ------------------------------------------------- derived quantities
RECURSIVE LedgerSumUpTo(_, _, _)
LedgerSumUpTo(logs, p, n) ==
  IF n = 0 THEN 0
  ELSE LedgerSumUpTo(logs, p, n - 1)
         + (IF logs[n].product_id = p THEN logs[n].change_amount ELSE 0)

\* the sum of change_amount over the stock-log entries of product p
LedgerSum(logs, p) == LedgerSumUpTo(logs, p, Len(logs))

RECURSIVE SoldUpTo(_, _, _)
SoldUpTo(rows, p, n) ==
  IF n = 0 THEN 0
  ELSE SoldUpTo(rows, p, n - 1)
         + (IF rows[n].product_id = p THEN rows[n].quantity ELSE 0)

\* the quantity of product p that the recorded sales have sold
Sold(rows, p) == SoldUpTo(rows, p, Len(rows))

LogsOf(logs, p) == {i \in DOMAIN logs : logs[i].product_id = p}

\* the stock product p was created with
InitialStock(logs, p) ==
  IF \E i \in LogsOf(logs, p) : logs[i].reason = <<"Initial stock">>
    THEN logs[CHOOSE i \in LogsOf(logs, p) : logs[i].reason = <<"Initial stock">>].change_amount
    ELSE 0

Quiescent == \A h \in Handlers : pc[h] = "idle"

IsError(r, message) == "error" \in DOMAIN r /\ r.error = message
IsSuccess(r, message) == "message" \in DOMAIN r /\ r.message = message

\* ---------------------------------------------------------------- C1
\* C1: with requests served one at a time, every product's stock_quantity
\* equals the sum of change_amount over its stock-log entries (0 for an
\* empty log), in every state.
C1_StockEqualsLedgerSum ==
  \A p \in DOMAIN products :
    products[p].stock_quantity = LedgerSum(stock_logs, p)

\* a product whose stock was set at creation, lowered by an edit and sold
C1_Witness ==
  \E p \in DOMAIN products :
    /\ \E i \in LogsOf(stock_logs, p) : stock_logs[i].reason = <<"Stock reduction">>
    /\ \E i \in LogsOf(stock_logs, p) : stock_logs[i].reason[1] = "Sale #"
    /\ Cardinality(LogsOf(stock_logs, p)) >= 3

\* ---------------------------------------------------------------- C2
\* C2: under any interleaving of concurrent handlers on the same product,
\* every committed state has stock_quantity equal to the sum of the
\* product's stock-log change_amount values.
C2_CommittedStockEqualsLedgerSum ==
  \A p \in DOMAIN products :
    LedgerSum(stock_logs, p) = products[p].stock_quantity

\* ---------------------------------------------------------------- C3
\* C3: when only RecordSale calls run (concurrently) against a product
\* created with stock S, then once they have all returned the quantities
\* of the recorded sales sum to at most S and the stock is S minus that sum.
C3_NoOversell ==
  Quiescent =>
    \A p \in DOMAIN products :
      /\ Sold(sales, p) <= InitialStock(stock_logs, p)
      /\ products[p].stock_quantity = InitialStock(stock_logs, p) - Sold(sales, p)

\* ---------------------------------------------------------------- C4
\* C4: in every reachable state, also under interleaved concurrent
\* requests, every product's stock_quantity is >= 0.
C4_StockNonNegative ==
  \A p \in DOMAIN products : products[p].stock_quantity >= 0

\* racing sales have sold more than the product ever held, and its stock
\* field is still not negative
C4_Witness ==
  \E p \in DOMAIN products :
    /\ Sold(sales, p) > InitialStock(stock_logs, p)
    /\ LedgerSum(stock_logs, p) < 0
    /\ products[p].stock_quantity >= 0

\* ---------------------------------------------------------------- C5
\* C5: RecordSale(p, q) with q greater than p's current stock fails with
\* InsufficientStock, reporting the available and the requested quantity,
\* and leaves products, stock log and sales as they were.
C5_OversizedSaleRejected ==
  [][\A p \in DOMAIN products, q \in AllInputs.quantities :
       (q > products[p].stock_quantity /\ add_sale(1, p, q)) =>
         /\ res' = [status |-> 400, error |-> "Insufficient stock",
                    available |-> products[p].stock_quantity, requested |-> q]
         /\ pc'[1] = "idle"
         /\ UNCHANGED <<tables, tx, lock>>]_vars

\* a sale of a stocked product was refused for asking more than there is
C5_Witness ==
  /\ IsError(res, "Insufficient stock")
  /\ res.available > 0
  /\ res.requested > res.available

\* ---------------------------------------------------------------- C6
\* C6: a successful RecordSale(p, q) on a product with stock s and price u
\* (0 < q <= s) sets the stock to s - q, inserts exactly one sale row
\* (p, q, u * q), appends exactly one stock-log entry (p, -q) whose reason
\* names the new sale's id, and returns remaining stock s - q and that id.
C6_SaleEffects ==
  [][/\ (pc[1] = "idle" /\ pc'[1] = "sale_update") =>
          \A p \in AllInputs.product_ids, q \in AllInputs.quantities :
            add_sale(1, p, q) =>
              /\ req'[1].product_id = p /\ req'[1].quantity = q
              /\ p \in DOMAIN products
              /\ 0 < q /\ q <= products[p].stock_quantity
     /\ pc[1] \in {"sale_update", "sale_insert", "sale_log"} => UNCHANGED tables
     /\ IsSuccess(res', "Sale recorded") => add_sale_commit(1)
     /\ add_sale_commit(1) =>
          LET p == req[1].product_id
              q == req[1].quantity
              s == products[p].stock_quantity
              u == products[p].price
              id == Len(sales) + 1
          IN /\ products' = [products EXCEPT ![p].stock_quantity = s - q]
             /\ sales' = Append(sales, [product_id |-> p, quantity |-> q,
                                        total_price |-> u * q,
                                        sale_date |-> CURRENT_TIMESTAMP(clock.now)])
             /\ stock_logs' = Append(stock_logs,
                                     [product_id |-> p, change_amount |-> -q,
                                      reason |-> <<"Sale #", id>>])
             /\ UNCHANGED categories
             /\ res' = [status |-> 201, message |-> "Sale recorded", sale_id |-> id,
                        total_price |-> u * q, remaining_stock |-> s - q]]_vars

\* a sale of 2 units at price 10 out of a stock of 4 has just been recorded
C6_Witness ==
  /\ IsSuccess(res, "Sale recorded")
  /\ res.remaining_stock = 2 /\ res.total_price = 20
  /\ sales[res.sale_id].quantity = 2
  /\ stock_logs[Len(stock_logs)] =
       [product_id |-> sales[res.sale_id].product_id, change_amount |-> -2,
        reason |-> <<"Sale #", res.sale_id>>]
  /\ products[sales[res.sale_id].product_id].stock_quantity = 2

\* ---------------------------------------------------------------- C7
\* C7: a RecordSale of exactly the remaining stock r > 0 is accepted and
\* leaves the stock at 0; the sufficiency check refuses a sale only when
\* the quantity is strictly greater than the current stock.
C7_ExactRemainingStockSellable ==
  [][/\ \A p \in DOMAIN products, q \in AllInputs.quantities :
          (q > 0 /\ q = products[p].stock_quantity /\ add_sale(1, p, q)) =>
            /\ pc'[1] = "sale_update"
            /\ req'[1].new_stock = 0
     /\ IsError(res', "Insufficient stock") => res'.requested > res'.available
     /\ (add_sale_commit(1) /\ req[1].new_stock = 0) =>
          /\ products'[req[1].product_id].stock_quantity = 0
          /\ res'.status = 201 /\ res'.remaining_stock = 0]_vars

\* two sales of one product in a row, the second taking all that was left
C7_Witness ==
  /\ IsSuccess(res, "Sale recorded")
  /\ res.remaining_stock = 0
  /\ Len(stock_logs) >= 2
  /\ LET n == Len(stock_logs)
     IN /\ stock_logs[n].reason[1] = "Sale #"
        /\ stock_logs[n - 1].reason[1] = "Sale #"
        /\ stock_logs[n].product_id = stock_logs[n - 1].product_id
        /\ products[stock_logs[n].product_id].stock_quantity = 0

\* ---------------------------------------------------------------- C8
\* what the open transaction of worker h holds once every write statement
\* of its handler has run
WritesComplete(h) ==
  LET r == req[h]
  IN CASE r.op = "add_sale" ->
            /\ tx.products = [products EXCEPT ![r.product_id].stock_quantity = r.new_stock]
            /\ tx.sales = Append(sales, [product_id |-> r.product_id,
                                         quantity |-> r.quantity,
                                         total_price |-> r.total_price,
                                         sale_date |-> CURRENT_TIMESTAMP(clock.now)])
            /\ tx.stock_logs = Append(stock_logs,
                                      [product_id |-> r.product_id,
                                       change_amount |-> -r.quantity,
                                       reason |-> <<"Sale #", Len(sales) + 1>>])
       [] r.op = "restock" ->
            /\ tx.products = [products EXCEPT ![r.product_id].stock_quantity = r.new_stock]
            /\ tx.sales = sales
            /\ tx.stock_logs = Append(stock_logs,
                                      [product_id |-> r.product_id,
                                       change_amount |-> r.quantity,
                                       reason |-> r.reason])
       [] r.op = "create_product" ->
            /\ tx.products = Append(products, r.data)
            /\ tx.sales = sales
            /\ tx.stock_logs =
                 IF r.data.stock_quantity > 0
                   THEN Append(stock_logs,
                               [product_id |-> Len(products) + 1,
                                change_amount |-> r.data.stock_quantity,
                                reason |-> <<"Initial stock">>])
                   ELSE stock_logs
       [] r.op = "update_product" ->
            /\ tx.products = [products EXCEPT ![r.product_id] = UpdatedRow(@, r.data)]
            /\ tx.sales = sales
            /\ tx.stock_logs =
                 IF "stock_quantity" \in DOMAIN r.data /\ r.stock_change # 0
                   THEN Append(stock_logs,
                               [product_id |-> r.product_id,
                                change_amount |-> r.stock_change,
                                reason |-> IF r.stock_change > 0
                                             THEN <<"Stock adjustment">>
                                             ELSE <<"Stock reduction">>])
                   ELSE stock_logs
       [] OTHER -> FALSE

\* C8: every write operation is all-or-nothing: a request that fails, also
\* after its first write, commits none of its writes, and the committed
\* tables (all that any other request reads) only ever change by the
\* complete set of writes of one request.
C8_AllOrNothing ==
  [][/\ res'.status >= 400 => UNCHANGED tables
     /\ tables' # tables =>
          \E h \in Handlers :
            /\ lock = h
            /\ WritesComplete(h)
            /\ products' = tx.products
            /\ sales' = tx.sales
            /\ stock_logs' = tx.stock_logs
            /\ UNCHANGED categories]_vars

\* a request has failed on a statement after its first write
C8_Witness ==
  /\ "cause" \in DOMAIN res
  /\ res.cause = "store error"
  /\ res.status = 500

\* ---------------------------------------------------------------- C9
\* C9: a successful Restock(p, q, reason) with q > 0 on a product with
\* stock s sets the stock to s + q, appends exactly one stock-log entry
\* (p, +q, reason), the reason being a default label when none is given,
\* inserts no sale row and returns new stock s + q.
C9_RestockEffects ==
  [][/\ (pc[1] = "idle" /\ pc'[1] = "restock_update") =>
          \A p \in AllInputs.product_ids, q \in AllInputs.quantities,
             r \in AllInputs.reasons :
            restock(1, p, q, r) =>
              /\ req'[1].product_id = p /\ req'[1].quantity = q
              /\ req'[1].reason = IF r = <<>> THEN <<"Manual restock">> ELSE r
              /\ p \in DOMAIN products /\ q > 0
     /\ pc[1] \in {"restock_update", "restock_log"} => UNCHANGED tables
     /\ IsSuccess(res', "Restocked") => restock_commit(1)
     /\ restock_commit(1) =>
          LET p == req[1].product_id
              q == req[1].quantity
              s == products[p].stock_quantity
          IN /\ products' = [products EXCEPT ![p].stock_quantity = s + q]
             /\ stock_logs' = Append(stock_logs,
                                     [product_id |-> p, change_amount |-> q,
                                      reason |-> req[1].reason])
             /\ UNCHANGED <<sales, categories>>
             /\ res' = [status |-> 200, message |-> "Restocked",
                        new_stock |-> s + q]]_vars

\* a restock with a reason of its own has followed one with the default
C9_Witness ==
  /\ IsSuccess(res, "Restocked")
  /\ Len(stock_logs) >= 2
  /\ LET n == Len(stock_logs)
     IN /\ stock_logs[n].reason = <<"Supplier delivery">>
        /\ stock_logs[n].change_amount > 0
        /\ stock_logs[n - 1].reason = <<"Manual restock">>
        /\ res.new_stock = products[stock_logs[n].product_id].stock_quantity
  /\ sales = <<>>

\* --------------------------------------------------------------- C10
\* C10: RecordSale and Restock (with a positive quantity) on a product id
\* that does not exist fail with NotFound and leave products, stock log
\* and sales unchanged.
C10_UnknownProductNotFound ==
  [][\A p \in AllInputs.product_ids, q \in 1..MaxQty :
       (/\ pc[1] = "idle"
        /\ p \notin DOMAIN products
        /\ \/ add_sale(1, p, q)
           \/ \E r \in AllInputs.reasons : restock(1, p, q, r)) =>
         /\ res' = format_error("Product not found", 404)
         /\ UNCHANGED tables]_vars

\* ------------------------------------------------------- error kinds
\* the error kind a response stands for: the handlers tell the kinds apart
\* by status code and message
ErrorKind(r) ==
  IF r.status < 400 THEN "none"
  ELSE IF r.status = 500 THEN "Internal"
  ELSE IF r.status = 404 THEN "NotFound"
  ELSE IF IsError(r, "Insufficient stock") THEN "InsufficientStock"
  ELSE IF IsError(r, "SKU already exists") THEN "Conflict"
  ELSE "InvalidArgument"

\* --------------------------------------------------------------- C11
\* C11: a RecordSale or Restock whose quantity is zero, negative or not a
\* number is rejected with InvalidArgument before any store access, and
\* the tables are unchanged.
C11_BadQuantityInvalidArgument ==
  [][/\ \A p \in AllInputs.product_ids, q \in AllInputs.quantities :
          (/\ q <= 0
           /\ \/ add_sale(1, p, q)
              \/ \E r \in AllInputs.reasons : restock(1, p, q, r)) =>
            /\ ErrorKind(res') = "InvalidArgument"
            /\ pc'[1] = "idle"
            /\ UNCHANGED <<tables, tx, lock>>
     /\ \A p \in AllInputs.product_ids, q \in AllInputs.text_quantities :
          (\/ add_sale_text_quantity(1, p, q)
           \/ restock_text_quantity(1, p, q)) =>
            /\ ErrorKind(res') = "InvalidArgument"
            /\ pc'[1] = "idle"
            /\ UNCHANGED <<tables, tx, lock>>]_vars

\* --------------------------------------------------------------- C12
\* C12: UpdateProduct(p, stock_quantity = n) with n the current stock of p
\* is accepted, appends no stock-log entry and leaves the stock at n; and
\* every successful UpdateProduct(p, stock_quantity = n) leaves the stock
\* at n, so that the same update applied again is that no-op.
C12_AdjustToCurrentIsNoOp ==
  [][/\ (pc[1] = "idle" /\ pc'[1] # "idle") =>
          \A p \in DOMAIN products :
            update_product(1, p, [stock_quantity |-> products[p].stock_quantity]) =>
              /\ pc'[1] = "upd_update"
              /\ req'[1].stock_change = 0
     /\ (/\ pc[1] \in {"upd_update", "upd_log", "upd_commit"}
         /\ "stock_quantity" \in DOMAIN req[1].data) =>
          LET p == req[1].product_id
              n == req[1].data.stock_quantity
          IN /\ n = products[p].stock_quantity =>
                  /\ pc'[1] # "upd_log"
                  /\ stock_logs' = stock_logs
                  /\ products'[p].stock_quantity = n
             /\ update_product_commit(1) => products'[p].stock_quantity = n]_vars

\* the update that has just set the stock of p to n is being applied a
\* second time: its UPDATE has run and nothing is to be logged
C12_Witness ==
  /\ pc[1] = "upd_commit"
  /\ lock = 1
  /\ "stock_quantity" \in DOMAIN req[1].data
  /\ req[1].stock_change = 0
  /\ tx.stock_logs = stock_logs
  /\ stock_logs # <<>>
  /\ LET last == stock_logs[Len(stock_logs)]
     IN /\ last.product_id = req[1].product_id
        /\ last.reason \in {<<"Stock adjustment">>, <<"Stock reduction">>}
        /\ products[req[1].product_id].stock_quantity = req[1].data.stock_quantity

\* --------------------------------------------------------------- C13
\* C13: UpdateProduct(p, stock_quantity = n) with n >= 0 and n different
\* from the current stock c is accepted, sets the stock to n and appends
\* exactly one stock-log entry (p, n - c) whose reason is the increase
\* label when n > c and the decrease label when n < c; an update never
\* changes the stock field without that entry.
C13_AdjustStockLogged ==
  [][/\ (pc[1] = "idle" /\ pc'[1] = "idle") =>
          \A p \in DOMAIN products, n \in 0..MaxQty :
            ~ (/\ n # products[p].stock_quantity
               /\ update_product(1, p, [stock_quantity |-> n]))
     /\ pc[1] \in {"upd_select", "upd_update", "upd_log"} => UNCHANGED tables
     /\ update_product_commit(1) =>
          LET p == req[1].product_id
              d == req[1].data
              c == products[p].stock_quantity
          IN IF "stock_quantity" \in DOMAIN d /\ d.stock_quantity # c
               THEN /\ d.stock_quantity >= 0
                    /\ products'[p].stock_quantity = d.stock_quantity
                    /\ stock_logs' =
                         Append(stock_logs,
                                [product_id |-> p,
                                 change_amount |-> d.stock_quantity - c,
                                 reason |-> IF d.stock_quantity > c
                                              THEN <<"Stock adjustment">>
                                              ELSE <<"Stock reduction">>])
               ELSE /\ products'[p].stock_quantity = c
                    /\ stock_logs' = stock_logs]_vars

\* a stock edit upwards has been followed by one downwards
C13_Witness ==
  /\ IsSuccess(res, "Product updated")
  /\ Len(stock_logs) >= 2
  /\ LET n == Len(stock_logs)
     IN /\ stock_logs[n].reason = <<"Stock reduction">>
        /\ stock_logs[n].change_amount < 0
        /\ stock_logs[n - 1].reason = <<"Stock adjustment">>
        /\ stock_logs[n - 1].change_amount > 0
        /\ stock_logs[n - 1].product_id = stock_logs[n].product_id
        /\ products[stock_logs[n].product_id].stock_quantity
             = stock_logs[n - 1].change_amount + stock_logs[n].change_amount

\* --------------------------------------------------------------- C14
\* strings that are empty once trimmed
Blank == {"", " "}

\* a CreateProduct request that passes the checks of its values
WellFormedCreate(d) ==
  /\ d.name \notin Blank
  /\ d.sku \notin Blank
  /\ d.price > 0
  /\ d.purchasing_price >= 0
  /\ d.stock_quantity >= 0

WellFormedCreates == {d \in AllInputs.creates : WellFormedCreate(d)}

\* C14: a CreateProduct (well-formed otherwise) whose sku already belongs
\* to an existing product fails with Conflict and inserts no product row
\* and no stock-log entry.
C14_DuplicateSkuConflict ==
  [][\/ pc[1] # "idle"
     \/ /\ ErrorKind(res') = "Conflict"
        /\ pc'[1] = "idle"
        /\ UNCHANGED <<tables, tx, lock>>
     \/ \A d \in WellFormedCreates :
          ~ (/\ \E i \in DOMAIN products : products[i].sku = strip(d.sku)
             /\ create_product(1, d))]_vars

\* the only product there is has had a second CreateProduct with its sku
\* turned down
C14_Witness ==
  /\ IsError(res, "SKU already exists")
  /\ Len(products) = 1
  /\ pc[1] = "idle"
  /\ Len(stock_logs) <= 1

C16_RaceLostIsConflict ==
  [][\A h \in Handlers :
       /\ (/\ pc[h] = "create_insert"
           /\ \E i \in DOMAIN products : products[i].sku = req[h].data.sku
           /\ create_insert(h)) =>
            /\ ErrorKind(res') = "Conflict"
            /\ UNCHANGED tables
       /\ (/\ pc[h] = "upd_update"
           /\ "sku" \in DOMAIN req[h].data
           /\ \E i \in DOMAIN products :
                i # req[h].product_id /\ products[i].sku = req[h].data.sku
           /\ update_product_update(h)) =>
            /\ ErrorKind(res') = "Conflict"
            /\ UNCHANGED tables]_vars

\* --------------------------------------------------------------- C17
MalformedCreates == AllInputs.creates \ WellFormedCreates

\* C17: a CreateProduct whose name or sku is empty once trimmed, whose
\* price is <= 0, whose purchasing price is < 0 or whose initial stock is
\* < 0 fails with InvalidArgument and inserts nothing.
C17_CreateValidation ==
  [][\/ pc[1] # "idle"
     \/ /\ ErrorKind(res') = "InvalidArgument"
        /\ pc'[1] = "idle"
        /\ UNCHANGED <<tables, tx, lock>>
     \/ \A d \in MalformedCreates : ~ create_product(1, d)]_vars

\* a CreateProduct has been turned down for its name or sku, with a
\* product already in the store
C17_Witness ==
  /\ res = format_error("Name and SKU are required", 400)
  /\ pc[1] = "idle"
  /\ Len(products) = 1
  /\ lock = 0

\* --------------------------------------------------------------- C18
\* C18: every product's min_stock_level (reorder threshold) is >= 0 in
\* every reachable state.
C18_ReorderThresholdNonNegative ==
  \A p \in DOMAIN products : products[p].min_stock_level >= 0

\* --------------------------------------------------------------- C19
\* C19: a successful CreateProduct with initial stock k inserts exactly
\* one product, with stock_quantity = k, and in the same commit appends
\* exactly one stock-log entry (new product, k, initial stock) when k > 0
\* and none when k = 0; it publishes nothing before that commit.
C19_CreateEffects ==
  [][/\ (pc[1] = "idle" /\ pc'[1] = "create_insert") =>
          \A d \in WellFormedCreates :
            create_product(1, d) =>
              req'[1].data.stock_quantity = d.stock_quantity
     /\ pc[1] \in {"create_insert", "create_log"} => UNCHANGED tables
     /\ IsSuccess(res', "Product created") => create_commit(1)
     /\ create_commit(1) =>
          LET k == req[1].data.stock_quantity
              id == Len(products) + 1
          IN /\ products' = Append(products, req[1].data)
             /\ products'[id].stock_quantity = k
             /\ stock_logs' =
                  IF k > 0
                    THEN Append(stock_logs,
                                [product_id |-> id, change_amount |-> k,
                                 reason |-> <<"Initial stock">>])
                    ELSE stock_logs
             /\ UNCHANGED <<sales, categories>>
             /\ res' = [status |-> 201, message |-> "Product created",
                        product_id |-> id]]_vars

\* a product has just been created with no stock and no log entry, after
\* one created with stock and its initial-stock entry
C19_Witness ==
  /\ IsSuccess(res, "Product created")
  /\ res.product_id = 2
  /\ products[2].stock_quantity = 0
  /\ LogsOf(stock_logs, 2) = {}
  /\ products[1].stock_quantity > 0
  /\ stock_logs = <<[product_id |-> 1,
                     change_amount |-> products[1].stock_quantity,
                     reason |-> <<"Initial stock">>]>>

\* --------------------------------------------------------------- C20
\* the UpdateProduct requests that name a category
CategoryUpdates == {d \in AllInputs.updates : "category_id" \in DOMAIN d}

\* C20: in every reachable state every product's category_id is the id of
\* an existing category: no step removes a category, a CreateProduct or
\* UpdateProduct with an unknown category_id fails and changes nothing,
\* and it fails with NotFound when no earlier check of the handler
\* answers first.
C20_CategoryReferenced ==
  [][/\ categories \subseteq categories'
     /\ \A p \in DOMAIN products' : products'[p].category_id \in categories'
     /\ pc[1] = "idle" =>
          /\ \A d \in AllInputs.creates :
               (d.category_id \notin categories /\ create_product(1, d)) =>
                 /\ res'.status >= 400
                 /\ pc'[1] = "idle"
                 /\ UNCHANGED <<tables, tx, lock>>
                 /\ (/\ WellFormedCreate(d)
                     /\ \A i \in DOMAIN products : products[i].sku # strip(d.sku)) =>
                      res' = format_error("Category not found", 404)
          /\ \A p \in AllInputs.product_ids, d \in CategoryUpdates :
               (/\ d.category_id \notin categories
                /\ update_product(1, p, d)) =>
                 /\ ErrorKind(res') = "NotFound"
                 /\ pc'[1] = "idle"
                 /\ UNCHANGED <<tables, tx, lock>>
                 /\ p \in DOMAIN products =>
                      res' = format_error("Category not found", 404)]_vars

\* a request naming an unknown category has been turned down while the
\* store holds products, each in a category that exists
C20_Witness ==
  /\ res = format_error("Category not found", 404)
  /\ pc[1] = "idle"
  /\ Len(products) = MaxProducts
  /\ \A p \in DOMAIN products : products[p].category_id \in categories

\* --------------------------------------------------------------- C21
\* C21: a successful UpdateProduct changes only the fields it was given:
\* every other field of the product and every other product keep their
\* values, the stock log changes only when stock_quantity was given with
\* a value different from the current one, and the sales never change.
C21_UpdateFrame ==
  [][/\ pc[1] \in {"upd_select", "upd_update", "upd_log"} => UNCHANGED tables
     /\ IsSuccess(res', "Product updated") => update_product_commit(1)
     /\ update_product_commit(1) =>
          LET p == req[1].product_id
              d == req[1].data
          IN /\ DOMAIN products' = DOMAIN products
             /\ \A i \in DOMAIN products : i # p => products'[i] = products[i]
             /\ \A f \in DOMAIN products[p] :
                  f \notin DOMAIN d => products'[p][f] = products[p][f]
             /\ UNCHANGED <<sales, categories>>
             /\ stock_logs' # stock_logs =>
                  /\ "stock_quantity" \in DOMAIN d
                  /\ d.stock_quantity # products[p].stock_quantity]_vars

\* the UPDATE of an edit of one product's stock has run while the store
\* holds a second product: only that one field differs
C21_Witness ==
  /\ pc[1] = "upd_commit"
  /\ lock = 1
  /\ DOMAIN req[1].data = {"stock_quantity"}
  /\ Len(products) = 2
  /\ LET p == req[1].product_id
     IN /\ tx.products[p].stock_quantity # products[p].stock_quantity
        /\ tx.products[p] = [products[p] EXCEPT !.stock_quantity = req[1].data.stock_quantity]
        /\ tx.products[3 - p] = products[3 - p]
        /\ tx.sales = sales

\* --------------------------------------------------------------- C22
\* C22: an UpdateProduct that names the sku the product already has is
\* accepted, passes the store's constraint and leaves the sku as it was;
\* one that names the sku of a different product fails with Conflict and
\* changes nothing.
C22_SkuCheckExcludesOwnRow ==
  [][/\ pc[1] = "idle" =>
          \A p \in DOMAIN products :
            /\ update_product(1, p, [sku |-> products[p].sku]) =>
                 pc'[1] = "upd_update"
            /\ \A i \in DOMAIN products \ {p} :
                 update_product(1, p, [sku |-> products[i].sku]) =>
                   /\ ErrorKind(res') = "Conflict"
                   /\ pc'[1] = "idle"
                   /\ UNCHANGED <<tables, tx, lock>>
     /\ (/\ pc[1] \in {"upd_update", "upd_commit"}
         /\ DOMAIN req[1].data = {"sku"}
         /\ req[1].data.sku = products[req[1].product_id].sku) =>
          /\ update_product_update(1) => pc'[1] = "upd_commit"
          /\ update_product_commit(1) =>
               /\ products' = products
               /\ res'.status = 200]_vars

\* an edit that names the product's own sku has passed the check and the
\* UPDATE, with another product in the store
C22_Witness ==
  /\ pc[1] = "upd_commit"
  /\ lock = 1
  /\ DOMAIN req[1].data = {"sku"}
  /\ req[1].data.sku = products[req[1].product_id].sku
  /\ Len(products) = 2

\* --------------------------------------------------------------- C23
\* the error kinds an UpdateProduct(p, d) is to fail with
UpdateFailureKinds(p, d) ==
  (IF \/ p \notin DOMAIN products
      \/ "category_id" \in DOMAIN d /\ d.category_id \notin categories
     THEN {"NotFound"} ELSE {})
    \cup
  (IF /\ "sku" \in DOMAIN d
      /\ \E i \in DOMAIN products : i # p /\ products[i].sku = strip(d.sku)
     THEN {"Conflict"} ELSE {})
    \cup
  (IF \/ "name" \in DOMAIN d /\ d.name \in Blank
      \/ "sku" \in DOMAIN d /\ d.sku \in Blank
      \/ "price" \in DOMAIN d /\ d.price <= 0
      \/ "purchasing_price" \in DOMAIN d /\ d.purchasing_price < 0
      \/ "stock_quantity" \in DOMAIN d /\ d.stock_quantity < 0
      \/ "min_stock_level" \in DOMAIN d /\ d.min_stock_level < 0
      \/ DOMAIN d \cap UpdatableFields = {}
     THEN {"InvalidArgument"} ELSE {})

\* C23: an UpdateProduct fails exactly when its product or category is
\* absent (NotFound), its sku collides (Conflict) or a value is out of
\* range or no updatable field is given (InvalidArgument); it fails with
\* one of the kinds that apply, and every failing UpdateProduct leaves
\* products, stock log and sales unchanged.  (No step of the handler is
\* enabled that does otherwise.)
C23_UpdateFailures ==
  /\ \A p \in AllInputs.product_ids, d \in AllInputs.updates :
       ~ ENABLED (/\ update_product(1, p, d)
                  /\ ~ IF UpdateFailureKinds(p, d) = {}
                         THEN pc'[1] \in {"upd_select", "upd_update"}
                         ELSE /\ UNCHANGED <<tables, tx, lock>>
                              /\ \/ pc'[1] = "upd_select"
                                 \/ /\ pc'[1] = "idle"
                                    /\ ErrorKind(res') \in UpdateFailureKinds(p, d))
  /\ ~ ENABLED (/\ update_product_select(1)
                /\ ~ IF UpdateFailureKinds(req[1].product_id, req[1].data) = {}
                       THEN pc'[1] = "upd_update"
                       ELSE /\ UNCHANGED <<tables, tx, lock>>
                            /\ pc'[1] = "idle"
                            /\ ErrorKind(res') \in
                                 UpdateFailureKinds(req[1].product_id, req[1].data))
  /\ ~ ENABLED (/\ \/ update_product_update(1)
                   \/ update_product_insert_log(1)
                   \/ update_product_commit(1)
                   \/ update_product_except(1)
                /\ res'.status >= 400
                /\ tables' # tables)

\* an edit has been refused for its min_stock_level
C23_Witness ==
  /\ res = format_error("Min stock level cannot be negative", 400)
  /\ pc[1] = "idle"
  /\ products # <<>>
  /\ lock = 0

\* --------------------------------------------------------------- C24
\* the UpdateProduct requests with a value out of range or no field
InvalidUpdates ==
  {d \in AllInputs.updates :
     \/ "name" \in DOMAIN d /\ d.name \in Blank
     \/ "sku" \in DOMAIN d /\ d.sku \in Blank
     \/ "price" \in DOMAIN d /\ d.price <= 0
     \/ "purchasing_price" \in DOMAIN d /\ d.purchasing_price < 0
     \/ "stock_quantity" \in DOMAIN d /\ d.stock_quantity < 0
     \/ "min_stock_level" \in DOMAIN d /\ d.min_stock_level < 0
     \/ DOMAIN d \cap UpdatableFields = {}}

\* C24: a request with a value out of range returns InvalidArgument
\* whatever the store contains (whether or not its product exists, its
\* sku is in use or its category is known), and changes nothing.
C24_InvalidArgumentWhateverTheStore ==
  [][pc[1] = "idle" =>
       /\ \A d \in MalformedCreates :
            create_product(1, d) =>
              /\ ErrorKind(res') = "InvalidArgument"
              /\ UNCHANGED <<tables, tx, lock>>
       /\ \A p \in AllInputs.product_ids, q \in (-1)..0 :
            (\/ add_sale(1, p, q)
             \/ \E r \in AllInputs.reasons : restock(1, p, q, r)) =>
              /\ ErrorKind(res') = "InvalidArgument"
              /\ UNCHANGED <<tables, tx, lock>>
       /\ \A p \in AllInputs.product_ids, d \in InvalidUpdates :
            update_product(1, p, d) =>
              /\ pc'[1] = "idle"
              /\ ErrorKind(res') = "InvalidArgument"
              /\ UNCHANGED <<tables, tx, lock>>]_vars

\* --------------------------------------------------------------- C25
\* C25: under fair scheduling of the concurrent handlers every request a
\* handler has started is eventually answered, and it is answered either
\* by its commit or by an error that leaves every table as it was; a
\* handler whose first write finds the write lock taken goes on when the
\* lock is released or fails when the busy timeout expires.
C25_NoOperationBlocks ==
  /\ \A h \in Handlers : (pc[h] # "idle") ~> (pc[h] = "idle")
  /\ [][\A h \in Handlers :
         (pc[h] # "idle" /\ pc'[h] = "idle") =>
           \/ res'.status >= 400 /\ UNCHANGED tables
           \/ res'.status < 400 /\ lock = h /\ lock' = 0]_vars

\* a handler is at its first write while the other handler holds the
\* write lock
C25_Witness ==
  /\ pc[1] \in {"sale_update", "restock_update", "create_insert", "upd_update"}
  /\ lock = 2
  /\ pc[2] # "idle"

\* --------------------------------------------------------------- C26
\* s is an initial part of t
IsPrefix(s, t) == Len(s) <= Len(t) /\ SubSeq(t, 1, Len(s)) = s

\* C26: every step of every request keeps each stock-log entry and each
\* sale record that existed before it, at its place and with the same
\* fields, and only adds entries after them; in particular a later change
\* of a product's price leaves the total_price of its sales as it was.
C26_AppendOnly ==
  [][/\ IsPrefix(stock_logs, stock_logs')
     /\ IsPrefix(sales, sales')
     /\ \A h \in Handlers :
          lock = h /\ lock' = h =>
            /\ IsPrefix(tx.stock_logs, tx'.stock_logs)
            /\ IsPrefix(tx.sales, tx'.sales)]_vars

\* the price of a product has been changed after a sale of it: the sale
\* keeps the total it was recorded with
C26_Witness ==
  /\ Quiescent
  /\ IsSuccess(res, "Product updated")
  /\ Len(stock_logs) >= 2
  /\ \E k \in DOMAIN sales :
       /\ sales[k].product_id \in DOMAIN products
       /\ sales[k].total_price # sales[k].quantity * products[sales[k].product_id].price

\* --------------------------------------------------------------- C27
\* the stock-log entries that record sale k
SaleLogs(k) ==
  {i \in DOMAIN stock_logs :
     /\ stock_logs[i].product_id = sales[k].product_id
     /\ stock_logs[i].change_amount = - sales[k].quantity
     /\ stock_logs[i].reason = SaleReason(k)}

\* C27: in every state of the store, whichever program of the repository
\* wrote it, every sale record has exactly one stock-log entry of its
\* product with change_amount = -quantity and a reason that names the sale.
C27_SalesOnlyBySaleOperation ==
  \A k \in DOMAIN sales : Cardinality(SaleLogs(k)) = 1

\* --------------------------------------------------------------- C28
\* C28: the store a seeding run leaves reconciles: the stock_quantity of
\* every seeded product is the sum of the change_amount of its stock-log
\* entries.
C28_SeededStoreReconciles ==
  res = SeedDone =>
    \A p \in DOMAIN products :
      products[p].stock_quantity = LedgerSum(stock_logs, p)

\* --------------------------------------------------------------- C29
\* C29: the dashboard computed on a store returns total_value = the sum
\* over all products of price * stock_quantity, low_stock_count = the
\* number of products with stock_quantity <= min_stock_level (equality
\* counts) and total_orders = the number of sales.
C29_DashboardTotals ==
  "total_value" \in DOMAIN res =>
    /\ res.total_value =
         SumSeq([p \in DOMAIN products |->
                   products[p].price * products[p].stock_quantity])
    /\ res.low_stock_count =
         Cardinality({p \in DOMAIN products :
                        products[p].stock_quantity <= products[p].min_stock_level})
    /\ res.total_orders = Len(sales)

\* the dashboard of two products worth 100 and 50, the second at its
\* threshold: total_value 150 and low_stock_count 1
C29_Witness ==
  /\ "total_value" \in DOMAIN res
  /\ Len(products) = 2
  /\ products[1].price * products[1].stock_quantity = 100
  /\ products[2].price * products[2].stock_quantity = 50
  /\ products[2].stock_quantity = products[2].min_stock_level
  /\ res.total_value = 150
  /\ res.low_stock_count = 1

\* --------------------------------------------------------------- C30
\* the calendar day (of the server's zone, as today is) a sale was made on
SaleDay(row) ==
  LET instant == IF row.sale_date.sep = " "
                   THEN row.sale_date.ticks
                   ELSE row.sale_date.ticks - clock.tz
  IN (instant + clock.tz) \div TicksPerDay

\* C30: the sales trend has 7 entries, for the 7 consecutive calendar days
\* that end today, in ascending order; the value of each is the sum of
\* total_price of the sales made on that day (0 when there is none), and
\* older sales count in no entry.
C30_SalesTrend ==
  "sales_trend" \in DOMAIN res =>
    LET today == (clock.now + clock.tz) \div TicksPerDay
        trend == res.sales_trend
    IN /\ Len(trend) = TrendDays
       /\ \A i \in 1..TrendDays :
            /\ trend[i].date = today - TrendDays + i
            /\ trend[i].value =
                 SumSeq([k \in DOMAIN sales |->
                           IF SaleDay(sales[k]) = trend[i].date
                             THEN sales[k].total_price ELSE 0])

\* --------------------------------------------------------------- C31
\* the committed store as it was when it held its first k sales, on a
\* store that has only been written by sales since
SnapshotAt(k) ==
  [products |->
     [p \in DOMAIN products |->
        [products[p] EXCEPT !.stock_quantity =
           @ + Sold(sales, p) - Sold(SubSeq(sales, 1, k), p)]],
   sales |-> SubSeq(sales, 1, k)]

\* C31: the figures of a dashboard response all belong to one committed
\* state of the store: a sale that commits while they are computed shows
\* in all of them or in none (the state is the one with as many sales as
\* the response's total_orders).
C31_DashboardSnapshot ==
  "total_orders" \in DOMAIN res =>
    LET snap == SnapshotAt(res.total_orders)
    IN /\ res.total_value = total_value(snap.products)
       /\ res.total_profit = total_profit(snap.products)
       /\ res.low_stock_count = low_stock_count(snap.products)
       /\ res.sales_trend = sales_trend(snap.sales, isoformat(clock.now, clock.tz))

\* --------------------------------------------------------------- C32
\* C32: the sales history asked for with limit N holds exactly
\* min(N, number of sales) records, the most recent ones, each with the
\* name and sku of its product, in descending order of sale time.
C32_SalesHistory ==
  \A limit \in HistoryLimits :
    ~ ENABLED (/\ get_sales(1, limit)
               /\ ~ LET rows == res'.sales
                         n == Min(limit, Len(sales))
                     IN /\ Len(rows) = n
                        /\ \A i \in 1..Len(rows) :
                             /\ rows[i].id \in DOMAIN sales
                             /\ rows[i].product_name = products[sales[rows[i].id].product_id].name
                             /\ rows[i].sku = products[sales[rows[i].id].product_id].sku
                             /\ rows[i].quantity = sales[rows[i].id].quantity
                             /\ rows[i].total_price = sales[rows[i].id].total_price
                        /\ \A i, j \in 1..Len(rows) :
                             i < j => sales[rows[i].id].sale_date.ticks
                                        >= sales[rows[j].id].sale_date.ticks
                        /\ \A i \in 1..Len(rows), k \in DOMAIN sales :
                             k \notin {rows[j].id : j \in 1..Len(rows)} =>
                               sales[rows[i].id].sale_date.ticks
                                 >= sales[k].sale_date.ticks)

\* --------------------------------------------------------------- C33
\* the text contains the search text, letters compared without case
Contains(text, search) ==
  \E k \in 0..(Len(text) - Len(search)) :
    \A j \in 1..Len(search) : Lower(text[k + j]) = Lower(search[j])

\* C33: the product list holds every product exactly once when no filter
\* is given, only those with stock_quantity <= min_stock_level when
\* low_stock_only is set, only those whose name or sku contains the search
\* text (without regard to case) when one is given, in ascending order of
\* name; listing changes nothing.
C33_ListProducts ==
  \A search \in ListSearches, low \in ListFlags :
    ~ ENABLED (/\ get_products(1, search, low)
               /\ ~ LET rows == res'.products
                         expected ==
                           {p \in DOMAIN products :
                              /\ lower(low) = "true" =>
                                   products[p].stock_quantity
                                     <= products[p].min_stock_level
                              /\ search # "" =>
                                   \/ Contains(Chars(products[p].name), Chars(search))
                                   \/ Contains(Chars(products[p].sku), Chars(search))}
                     IN /\ {rows[i].id : i \in DOMAIN rows} = expected
                        /\ Len(rows) = Cardinality(expected)
                        /\ \A i \in DOMAIN rows :
                             rows[i].name = products[rows[i].id].name
                        /\ \A i, j \in DOMAIN rows :
                             i < j => TextLE(Chars(rows[i].name), Chars(rows[j].name))
                        /\ UNCHANGED <<tables, tx, lock>>)

\* --------------------------------------------------------------- C34
\* C34: after any sequence of API operations, GetProduct(id) returns the
\* product for every id of a product in the store, and fails with NotFound
\* exactly when the store has no product of that id.
C34_GetProduct ==
  \A h \in Handlers, id \in 1..MaxProducts :
    ~ ENABLED (/\ get_product(h, id)
               /\ ~ IF id \in DOMAIN products
                      THEN /\ res'.status = 200
                           /\ res'.product.id = id
                           /\ \A f \in DOMAIN products[id] :
                                res'.product[f] = products[id][f]
                      ELSE ErrorKind(res') = "NotFound")

C34_Witness ==
  /\ "product" \in DOMAIN res
  /\ res.product.id \in DOMAIN products
  /\ Len(sales) > 0

\* --------------------------------------------------------------- C35
\* C35: a read-only operation (ListProducts, GetProduct, DashboardStats,
\* SalesHistory, ListCategories, the PDF export, the health check) leaves
\* categories, products, sales and the stock log unchanged, and leaves
\* every write that runs at the same time as it was: its position, its
\* request, its uncommitted rows and the write lock, so the write neither
\* fails nor commits a different result because of the read.
C35_ReadsArePure ==
  \A h \in Handlers :
    ~ ENABLED (/\ Reads(h)
               /\ ~ /\ UNCHANGED <<tables, tx, lock>>
                     /\ \A g \in Handlers \ {h} :
                          pc'[g] = pc[g] /\ req'[g] = req[g])

C35_Witness ==
  /\ lock # 0
  /\ tx # NoTx
  /\ "products" \in DOMAIN res
  /\ Len(res.products) > 0

\* --------------------------------------------------------------- C36
\* what a run of init_db leaves, whatever the store held
InitDbPost ==
  /\ schema' = "app"
  /\ products' = products /\ sales' = sales /\ stock_logs' = stock_logs
  /\ categories \subseteq categories'
  /\ 1..NumCategories \subseteq categories'
  /\ \A c, d \in categories' : CategoryName(c) = CategoryName(d) => c = d
  /\ (schema = "app" /\ 1..NumCategories \subseteq categories) =>
       categories' = categories

\* C36: init_db is idempotent and non-destructive: after it the tables
\* exist and the products table can be counted; run on an initialised
\* store, with or without data, it leaves every category, product, sale
\* and stock-log row as it was and adds no category whose name is there
\* already, so category names stay unique.
C36_InitDbIdempotent ==
  /\ ~ ENABLED (app_main /\ ~ InitDbPost)
  /\ ~ ENABLED (test_server
                 /\ ~ (InitDbPost /\ res'.product_count = Len(products')))

C36_Witness ==
  /\ "product_count" \in DOMAIN res
  /\ res.product_count = SeedProducts
  /\ Len(sales) > 0
  /\ (NumCategories + 1) \in categories

\* --------------------------------------------------------------- C37
\* C37: seed_real_products leaves the store with all the products of its
\* list (121 in the script, SeedProducts here), whatever the store was
\* before it ran: tables made by init_db, tables made by the script's own
\* init_db_if_needed, a store that already holds products; it never ends
\* with the previous products deleted and none inserted.
C37_RealSeedLeavesProducts ==
  ~ ENABLED (seed_real_products /\ Len(products') # SeedProducts)

\* --------------------------------------------------------------- C38
\* handler h has just appended a row to the stock log of its transaction
LogRowAppended(h) ==
  /\ lock = h /\ lock' = h
  /\ Len(tx'.stock_logs) = Len(tx.stock_logs) + 1

\* C38: every stock-log entry an API operation appends has a nonzero
\* change_amount: a negative one only when a sale or a downward
\* adjustment ("Stock reduction") appends it, a positive one only when a
\* restock, an upward adjustment ("Stock adjustment") or the initial stock
\* of a new product appends it.
C38_LogEntriesSigned ==
  /\ [](\A k \in DOMAIN stock_logs : stock_logs[k].change_amount # 0)
  /\ [][\A h \in Handlers :
          LogRowAppended(h) =>
            LET e == tx'.stock_logs[Len(tx'.stock_logs)]
            IN /\ e.change_amount # 0
               /\ e.change_amount < 0 =>
                    \/ pc[h] = "sale_log"
                    \/ pc[h] = "upd_log" /\ e.reason = <<"Stock reduction">>
               /\ e.change_amount > 0 =>
                    \/ pc[h] \in {"restock_log", "create_log"}
                    \/ pc[h] = "upd_log" /\ e.reason = <<"Stock adjustment">>
               /\ pc[h] = "sale_log" => e.change_amount < 0
               /\ pc[h] \in {"restock_log", "create_log"} => e.change_amount > 0]_vars

C38_Witness ==
  \E i, j, k \in DOMAIN stock_logs :
    /\ stock_logs[i].reason = <<"Initial stock">> /\ stock_logs[i].change_amount > 0
    /\ stock_logs[j].reason = <<"Stock reduction">> /\ stock_logs[j].change_amount < 0
    /\ stock_logs[k].reason = <<"Manual restock">> /\ stock_logs[k].change_amount > 0

\* --------------------------------------------------------------- C39
SaleRestockLabels ==
  {"sale_update", "sale_insert", "sale_log", "sale_commit",
   "restock_update", "restock_log", "restock_commit"}

\* C39: RecordSale and Restock on product p change, of all product data,
\* only p's stock_quantity (and updated_at, which is not modelled): every
\* other field of p and every field of every other product stay as they
\* are, no product appears or disappears, the categories stay, and Restock
\* does not change the sales table.
C39_SaleRestockFrame ==
  [][\A h \in Handlers :
       (pc[h] \in SaleRestockLabels /\ pc'[h] # pc[h]) =>
         /\ DOMAIN products' = DOMAIN products
         /\ \A i \in DOMAIN products : \A f \in DOMAIN products[i] :
              (i # req[h].product_id \/ f # "stock_quantity") =>
                products'[i][f] = products[i][f]
         /\ categories' = categories
         /\ req[h].op = "restock" => sales' = sales]_vars

C39_Witness ==
  /\ IsSuccess(res, "Restocked")
  /\ Len(products) = MaxProducts
  /\ Len(sales) > 0

\* --------------------------------------------------------------- C40
RestockReasons == {RestockReason(r) : r \in AllInputs.reasons}

\* the last two rows of the stock log are a restock of q units of a
\* product and the sale of q units of it
RoundTripDone ==
  /\ IsSuccess(res, "Sale recorded")
  /\ Len(stock_logs) >= 2
  /\ LET n == Len(stock_logs)
     IN /\ stock_logs[n - 1].reason \in RestockReasons
        /\ stock_logs[n - 1].change_amount > 0
        /\ stock_logs[n].product_id = stock_logs[n - 1].product_id
        /\ stock_logs[n].change_amount = -stock_logs[n - 1].change_amount
        /\ stock_logs[n].reason = SaleReason(Len(sales))

\* C40: with requests served one at a time, Restock(p, q) with q > 0 on a
\* product p is accepted; RecordSale(p, q) right after it is accepted too;
\* and once both are done p's stock is what it was before the restock,
\* the stock log has grown by the two entries +q and -q, which sum to 0,
\* and the sales table by the one record of q units of p.
C40_RoundTrip ==
  /\ \A p \in DOMAIN products, q \in 1..MaxQty, r \in AllInputs.reasons :
       ~ ENABLED (restock(1, p, q, r) /\ pc'[1] = "idle")
  /\ (IsSuccess(res, "Restocked") /\ stock_logs # <<>>) =>
       LET e == stock_logs[Len(stock_logs)]
       IN /\ e.change_amount > 0
          /\ res.new_stock = products[e.product_id].stock_quantity
          /\ ~ ENABLED (add_sale(1, e.product_id, e.change_amount) /\ pc'[1] = "idle")
  /\ RoundTripDone =>
       LET n == Len(stock_logs)
           p == stock_logs[n].product_id
           q == stock_logs[n - 1].change_amount
       IN /\ products[p].stock_quantity
               = LedgerSum(SubSeq(stock_logs, 1, n - 2), p)
          /\ stock_logs[n - 1].change_amount + stock_logs[n].change_amount = 0
          /\ sales[Len(sales)].product_id = p
          /\ sales[Len(sales)].quantity = q

C40_Witness ==
  /\ RoundTripDone
  /\ stock_logs[Len(stock_logs)].change_amount = -MaxQty
  /\ products[stock_logs[Len(stock_logs)].product_id].stock_quantity = 0
====
